---- MODULE Spec2Model ----
(***************************************************************************)
(* A model of lx-lsp: the note index, the index synchronizer (full rebuild *)
(* and incremental update driven by the file watcher), the reference       *)
(* resolver and the query handlers built on it.                            *)
(*                                                                         *)
(* Strings are sequences of one-character strings; a file content or a     *)
(* document is the sequence of its lines (what strings.Split(s, "\n")      *)
(* returns).                                                               *)
(***************************************************************************)
EXTENDS Integers, Sequences, FiniteSets, TLC

(***************************************************************************)
(* Go's strings package, on sequences of characters.                       *)
(***************************************************************************)

WhiteSpace == {" ", "\t", "\r"}

Digits == {"0", "1", "2", "3", "4", "5", "6", "7", "8", "9"}

UpperSeq == <<"A", "B", "C", "D", "E", "F", "G", "H", "I", "J", "K", "L", "M",
              "N", "O", "P", "Q", "R", "S", "T", "U", "V", "W", "X", "Y", "Z">>

LowerSeq == <<"a", "b", "c", "d", "e", "f", "g", "h", "i", "j", "k", "l", "m",
              "n", "o", "p", "q", "r", "s", "t", "u", "v", "w", "x", "y", "z">>

Range(s) == {s[i] : i \in DOMAIN s}

\* \w of Go's regexp: [0-9A-Za-z_]
WordChars == Digits \cup Range(UpperSeq) \cup Range(LowerSeq) \cup {"_"}

ToLowerChar(c) ==
    IF \E i \in DOMAIN UpperSeq : UpperSeq[i] = c
    THEN LowerSeq[CHOOSE i \in DOMAIN UpperSeq : UpperSeq[i] = c]
    ELSE c

ToLower(s) == [i \in DOMAIN s |-> ToLowerChar(s[i])]

HasPrefix(s, p) == Len(s) >= Len(p) /\ SubSeq(s, 1, Len(p)) = p

HasSuffix(s, p) == Len(s) >= Len(p) /\ SubSeq(s, Len(s) - Len(p) + 1, Len(s)) = p

TrimPrefix(s, p) == IF HasPrefix(s, p) THEN SubSeq(s, Len(p) + 1, Len(s)) ELSE s

TrimSuffix(s, p) == IF HasSuffix(s, p) THEN SubSeq(s, 1, Len(s) - Len(p)) ELSE s

RECURSIVE TrimLeft(_)
TrimLeft(s) == IF s # <<>> /\ Head(s) \in WhiteSpace THEN TrimLeft(Tail(s)) ELSE s

RECURSIVE TrimRight(_)
TrimRight(s) ==
    IF s # <<>> /\ s[Len(s)] \in WhiteSpace
    THEN TrimRight(SubSeq(s, 1, Len(s) - 1))
    ELSE s

TrimSpace(s) == TrimRight(TrimLeft(s))

\* index (1-based) of the first occurrence of character c in s, 0 when absent
IndexOf(s, c) ==
    IF \E i \in DOMAIN s : s[i] = c
    THEN CHOOSE i \in DOMAIN s : s[i] = c /\ \A j \in 1..(i - 1) : s[j] # c
    ELSE 0

\* strings.Split(s, c) for a one-character separator
RECURSIVE Split(_, _)
Split(s, c) ==
    LET i == IndexOf(s, c)
    IN  IF i = 0 THEN <<s>>
        ELSE <<SubSeq(s, 1, i - 1)>> \o Split(SubSeq(s, i + 1, Len(s)), c)

\* strings.Join(parts, sep)
RECURSIVE Join(_, _)
Join(parts, sep) ==
    IF parts = <<>> THEN <<>>
    ELSE IF Len(parts) = 1 THEN parts[1]
    ELSE parts[1] \o sep \o Join(Tail(parts), sep)

Ext_tex == <<".", "t", "e", "x">>

(***************************************************************************)
(* Slug resolver.                                                          *)
(***************************************************************************)

\* len(parts[0]) == 8 in parseFilenameToSlug
DatePrefixLen == 8

\* parseFilenameToSlug dropping whatever comes before the first hyphen
parseFilenameToSlugAnyPrefix(filename) ==
    LET name == TrimSuffix(filename, Ext_tex)
        h == IndexOf(name, "-")
    IN  IF h > 0 THEN SubSeq(name, h + 1, Len(name)) ELSE name

parseFilenameToSlug(filename) ==
    LET name == TrimSuffix(filename, Ext_tex)
        h == IndexOf(name, "-")
    IN  IF h > 0 /\ h - 1 = DatePrefixLen
           /\ \A i \in 1..(h - 1) : name[i] \in Digits
        THEN SubSeq(name, h + 1, Len(name))
        ELSE name

(***************************************************************************)
(* Metadata parser, lenient mode (metadata.Extract).                       *)
(***************************************************************************)

Kw_metadata == <<"m", "e", "t", "a", "d", "a", "t", "a">>
Kw_title == <<"t", "i", "t", "l", "e">>
Kw_date == <<"d", "a", "t", "e">>
Kw_tags == <<"t", "a", "g", "s">>
Hdr1 == <<"%", " ", "M", "e", "t", "a", "d", "a", "t", "a">>
Hdr2 == <<"%", "%", " ", "M", "e", "t", "a", "d", "a", "t", "a">>

\* the loop "for strings.HasPrefix(s, "%") { TrimPrefix; TrimSpace }"
RECURSIVE StripPercent(_)
StripPercent(s) ==
    IF HasPrefix(s, <<"%">>) THEN StripPercent(TrimSpace(Tail(s))) ELSE s

IsBlockHeader(line) ==
    LET stripped == StripPercent(TrimSpace(line))
    IN  HasPrefix(ToLower(stripped), Kw_metadata)

IsCommentLine(line) == HasPrefix(TrimSpace(line), <<"%">>)

\* number of lines of lines[from..] that belong to the block (start with %)
RECURSIVE BlockRun(_, _)
BlockRun(lines, from) ==
    IF from > Len(lines) \/ ~IsCommentLine(lines[from]) THEN 0
    ELSE 1 + BlockRun(lines, from + 1)

\* extractMetadataBlock: [found, start (0-based line of the header), lines]
extractMetadataBlock(content) ==
    IF \E i \in DOMAIN content : IsBlockHeader(content[i])
    THEN LET s == CHOOSE i \in DOMAIN content :
                      /\ IsBlockHeader(content[i])
                      /\ \A j \in 1..(i - 1) : ~IsBlockHeader(content[j])
             n == BlockRun(content, s + 1)
         IN  [found |-> TRUE, start |-> s - 1, lines |-> SubSeq(content, s, s + n)]
    ELSE [found |-> FALSE, start |-> 0, lines |-> <<>>]

\* the length of the longest prefix of s made of \w characters
RECURSIVE WordLen(_)
WordLen(s) == IF s # <<>> /\ Head(s) \in WordChars THEN 1 + WordLen(Tail(s)) ELSE 0

\* the regexp ^(\w+):\s*(.*)$ : [ok, field, value]
MatchField(s) ==
    LET n == WordLen(s)
    IN  IF n >= 1 /\ Len(s) > n /\ s[n + 1] = ":"
        THEN [ok |-> TRUE, field |-> SubSeq(s, 1, n),
              value |-> TrimLeft(SubSeq(s, n + 2, Len(s)))]
        ELSE [ok |-> FALSE, field |-> <<>>, value |-> <<>>]

\* the trimmed, non-empty items of a comma-separated tags value
RECURSIVE TrimmedNonEmpty(_)
TrimmedNonEmpty(parts) ==
    IF parts = <<>> THEN <<>>
    ELSE LET t == TrimSpace(Head(parts))
         IN  (IF t # <<>> THEN <<t>> ELSE <<>>) \o TrimmedNonEmpty(Tail(parts))

\* parseMetadataLine, lenient: the Metadata after the line
parseMetadataLine(line, m) ==
    LET mt == MatchField(StripPercent(TrimSpace(line)))
        field == ToLower(TrimSpace(mt.field))
        value == TrimSpace(mt.value)
    IN  IF ~mt.ok THEN m
        ELSE IF field = Kw_title
             THEN IF m.Title # <<>> \/ value = <<>> THEN m
                  ELSE [m EXCEPT !.Title = value]
        ELSE IF field = Kw_date
             THEN IF m.Date # <<>> THEN m ELSE [m EXCEPT !.Date = value]
        ELSE IF field = Kw_tags
             THEN IF value # <<>>
                  THEN [m EXCEPT !.Tags = @ \o TrimmedNonEmpty(Split(value, ","))]
                  ELSE m
        ELSE m

\* the scanner loop of Parse over the block's lines
RECURSIVE ParseLines(_, _)
ParseLines(lines, m) ==
    IF lines = <<>> THEN m
    ELSE LET trimmed == TrimSpace(Head(lines))
         IN  IF trimmed = <<>> \/ HasPrefix(trimmed, Hdr2) \/ HasPrefix(trimmed, Hdr1)
             THEN ParseLines(Tail(lines), m)
             ELSE ParseLines(Tail(lines), parseMetadataLine(Head(lines), m))

\* the tags of normalizeMetadata: first spelling of each lower-cased tag
RECURSIVE DedupTags(_, _)
DedupTags(tags, seen) ==
    IF tags = <<>> THEN <<>>
    ELSE LET n == TrimSpace(ToLower(Head(tags)))
         IN  IF n # <<>> /\ n \notin seen
             THEN <<Head(tags)>> \o DedupTags(Tail(tags), seen \cup {n})
             ELSE DedupTags(Tail(tags), seen)

normalizeMetadata(m) ==
    [Title |-> TrimSpace(m.Title),
     Date |-> IF m.Date # <<>> THEN TrimSpace(m.Date) ELSE m.Date,
     Tags |-> DedupTags(m.Tags, {})]

EmptyMetadata == [Title |-> <<>>, Date |-> <<>>, Tags |-> <<>>]

\* metadata.Extract: Parse with strict = false; [err, meta]
Extract(content) ==
    LET b == extractMetadataBlock(content)
    IN  IF ~b.found THEN [err |-> FALSE, meta |-> EmptyMetadata]
        ELSE [err |-> FALSE,
              meta |-> normalizeMetadata(ParseLines(b.lines, EmptyMetadata))]

(***************************************************************************)
(* The notes directory: the files the model lets exist, and their contents.*)
(***************************************************************************)

\* the most changes the environment makes to the notes directory in one run
MaxChanges == 2

\* the most change events pending delivery to the watcher
MaxQueue == 2

\* the most direct calls of RebuildIndex and updateIndexForFile in one run
MaxCalls == 3

NotesPath == <<"/", "n", "o", "t", "e", "s">>

N_a1 == <<"2", "0", "2", "4", "0", "1", "0", "1", "-", "a", ".", "t", "e", "x">>
N_a2 == <<"a", ".", "t", "e", "x">>
N_b == <<"b", ".", "t", "e", "x">>
N_txt == <<"n", ".", "t", "x", "t">>
N_dir == <<"d", ".", "t", "e", "x">>

\* names created as regular files, names created as directories
FileNames == {N_a1, N_a2, N_b, N_txt}
DirNames == {N_dir}
Names == FileNames \cup DirNames

\* the names in the order os.ReadDir lists them (sorted by filename)
SortedNames == <<N_a1, N_a2, N_b, N_dir, N_txt>>

\* a note with a metadata block (a title and tags), and one without
K_meta == << <<"%", "M", "e", "t", "a", "d", "a", "t", "a">>,
             <<"%", "t", "i", "t", "l", "e", ":", "T">>,
             <<"%", "t", "a", "g", "s", ":", "x", ",", "X">> >>
K_plain == << <<"t", "e", "x", "t">> >>
\* a metadata block without fields
K_hdr == << <<"%", "M", "e", "t", "a", "d", "a", "t", "a">> >>
Contents == {K_meta, K_plain, K_hdr}

Absent == [kind |-> "absent", content |-> <<>>, readable |-> FALSE]
Directory == [kind |-> "dir", content |-> <<>>, readable |-> TRUE]
File(c, r) == [kind |-> "file", content |-> c, readable |-> r]

\* vault.GetNotePath(filename)
GetNotePath(filename) == NotesPath \o <<"/">> \o filename

\* filepath.Base(path), for a path with no trailing separator
RECURSIVE Base(_)
Base(path) ==
    LET i == IndexOf(path, "/")
    IN  IF i = 0 THEN path ELSE Base(SubSeq(path, i + 1, Len(path)))

\* filepath.Dir(path), for a path with no trailing separator
DirOf(path) == SubSeq(path, 1, Len(path) - Len(Base(path)) - 1)

\* the paths of the names of the model, and Base, DirOf and parseFilenameToSlug
\* tabulated for them
Paths == {GetNotePath(n) : n \in Names}

PathTable == [p \in Paths |-> [base |-> Base(p), dir |-> DirOf(p)]]

SlugTable == [n \in Names |-> parseFilenameToSlug(n)]

BaseT(path) == IF path \in Paths THEN PathTable[path].base ELSE Base(path)

DirT(path) == IF path \in Paths THEN PathTable[path].dir ELSE DirOf(path)

SlugT(filename) ==
    IF filename \in Names THEN SlugTable[filename] ELSE parseFilenameToSlug(filename)

\* the entry a path names in directory state d
Lookup(d, path) ==
    IF DirT(path) = NotesPath /\ BaseT(path) \in DOMAIN d THEN d[BaseT(path)] ELSE Absent

\* os.Stat(path) reports "does not exist"
StatNotExist(d, path) == Lookup(d, path).kind = "absent"

\* os.ReadFile(path): [err, content]
ReadFile(d, path) ==
    LET e == Lookup(d, path)
    IN  IF e.kind = "file" /\ e.readable
        THEN [err |-> FALSE, content |-> e.content]
        ELSE [err |-> TRUE, content |-> <<>>]

\* os.ReadDir(NotesPath): the entries [name, isDir], sorted by name
ReadDir(d) ==
    LET present == SelectSeq(SortedNames, LAMBDA n : d[n].kind # "absent")
    IN  [i \in DOMAIN present |->
            [name |-> present[i], isDir |-> d[present[i]].kind = "dir"]]

(***************************************************************************)
(* The note index (the table under Index.mu).                              *)
(***************************************************************************)

EmptyIndex == [s \in {} |-> 0]

IndexHas(idx, slug) == slug \in DOMAIN idx

IndexSetMergeTags(idx, slug, header) ==
    [s \in DOMAIN idx \cup {slug} |->
        IF s # slug THEN idx[s]
        ELSE IF slug \in DOMAIN idx
             THEN [header EXCEPT !.Tags = idx[slug].Tags \o header.Tags]
             ELSE header]

IndexSetKeepFirst(idx, slug, header) ==
    IF slug \in DOMAIN idx THEN idx
    ELSE [s \in DOMAIN idx \cup {slug} |-> IF s = slug THEN header ELSE idx[s]]

\* Index.Set: i.notes[slug] = header
IndexSet(idx, slug, header) ==
    [s \in DOMAIN idx \cup {slug} |-> IF s = slug THEN header ELSE idx[s]]

\* Index.Delete: delete(i.notes, slug)
IndexDelete(idx, slug) == [s \in DOMAIN idx \ {slug} |-> idx[s]]

\* Index.Count
IndexCount(idx) == Cardinality(DOMAIN idx)

(***************************************************************************)
(* The index synchronizer.                                                 *)
(***************************************************************************)

NoHeader == [Filename |-> <<>>, Slug |-> <<>>, Title |-> <<>>, Date |-> <<>>, Tags |-> <<>>]

\* whether the Tags of metadata.Extract(content) is a nil slice: Parse starts
\* from []string{} and returns it when there is no block; with a block,
\* normalizeMetadata assigns uniqueTags, which is nil until a tag is appended
ExtractTagsNilOf(content) ==
    extractMetadataBlock(content).found /\ Extract(content).meta.Tags = <<>>

\* ExtractTagsNilOf, tabulated for the contents of the model
TagsNilTable == [c \in Contents |-> ExtractTagsNilOf(c)]

ExtractTagsNil(content) ==
    IF content \in Contents THEN TagsNilTable[content] ELSE ExtractTagsNilOf(content)

\* HeaderTagsNil without the guard "if header.Tags == nil"
HeaderTagsNilUnguarded(filename, content) == ExtractTagsNil(content)

\* whether the Tags of the header parseNoteHeader builds is a nil slice
HeaderTagsNil(filename, content) ==
    LET tagsNil == ExtractTagsNil(content)
    IN  IF tagsNil THEN FALSE ELSE tagsNil

\* the header parseNoteHeader builds from a file's content
HeaderOf(filename, content) ==
    LET slug == parseFilenameToSlug(filename)
        ex == Extract(content)
    IN  IF ex.err
        THEN [Filename |-> filename, Slug |-> slug, Title |-> slug,
              Date |-> <<>>, Tags |-> <<>>]
        ELSE [Filename |-> filename, Slug |-> slug,
              Title |-> IF ex.meta.Title = <<>> THEN slug ELSE ex.meta.Title,
              Date |-> ex.meta.Date, Tags |-> ex.meta.Tags]

\* HeaderOf, tabulated for the names and contents of the model
HeaderTable == [n \in Names |-> [c \in Contents |-> HeaderOf(n, c)]]

Header(filename, content) ==
    IF filename \in Names /\ content \in Contents
    THEN HeaderTable[filename][content]
    ELSE HeaderOf(filename, content)

\* parseNoteHeader(filename) in directory state d: [err, content, header]
parseNoteHeader(d, filename) ==
    LET rd == ReadFile(d, GetNotePath(filename))
    IN  IF rd.err THEN [err |-> TRUE, content |-> <<>>, header |-> NoHeader]
        ELSE [err |-> FALSE, content |-> rd.content,
              header |-> Header(filename, rd.content)]

updateAbsentByName(idx, path) == IndexDelete(idx, BaseT(path))

\* updateIndexForFile, the path does not exist: its basename's slug is deleted
updateAbsent(idx, path) == IndexDelete(idx, SlugT(BaseT(path)))

updateParsedDropOnError(idx, path, r) ==
    IF r.err THEN IndexDelete(idx, SlugT(BaseT(path)))
    ELSE IndexSet(idx, r.header.Slug, r.header)

\* updateIndexForFile, the path exists: the header is Set when there is one
updateParsed(idx, path, r) ==
    IF ~r.err THEN IndexSet(idx, r.header.Slug, r.header) ELSE idx

IsNoteEventAny(name) == TRUE

\* handleFileEvents: only paths ending in .tex are updated
IsNoteEvent(name) == HasSuffix(name, Ext_tex)

\* a rebuild that starts from an empty table
RECURSIVE SetAllReplacing(_, _)
SetAllReplacing(idx, headers) ==
    IF headers = <<>> THEN EmptyIndex
    ELSE IndexSet(SetAllReplacing(idx, SubSeq(headers, 1, Len(headers) - 1)),
                  headers[Len(headers)].Slug, headers[Len(headers)])

\* the loop of RebuildIndex: Set every header, in order
RECURSIVE SetAll(_, _)
SetAll(idx, headers) ==
    IF headers = <<>> THEN idx
    ELSE SetAll(IndexSet(idx, Head(headers).Slug, Head(headers)), Tail(headers))

(***************************************************************************)
(* Reference markup: the patterns of getSlugAtPosition and of              *)
(* analyzeDiagnostics, the reference under a position, the diagnostics of  *)
(* a document.  Offsets are Go's (0-based); a match is                     *)
(* [ok, s0, e0, s, e]: the whole match is line[s0:e0], its argument        *)
(* line[s:e].                                                              *)
(***************************************************************************)

Kw_ref == <<"r", "e", "f">>
Kw_cite == <<"c", "i", "t", "e">>
Kw_input == <<"i", "n", "p", "u", "t">>
Kw_include == <<"i", "n", "c", "l", "u", "d", "e">>
Kw_todo == <<"t", "o", "d", "o">>
RelPrefix == <<".", ".", "/", "n", "o", "t", "e", "s", "/">>

\* the alternation of refPattern in getSlugAtPosition
SlugKinds == <<Kw_ref, Kw_cite, Kw_input, Kw_include>>

\* the alternation of refPattern in analyzeDiagnostics
DiagKinds == <<Kw_ref, Kw_cite>>

\* the alternation of todoPattern
TodoKinds == <<Kw_todo>>

NoMatch == [ok |-> FALSE, s0 |-> 0, e0 |-> 0, s |-> 0, e |-> 0]

\* \\kw\{([^}]+)\} matched at offset i of line
MatchKw(line, i, kw) ==
    LET s == i + Len(kw) + 2
        rest == SubSeq(line, s + 1, Len(line))
        close == IndexOf(rest, "}")
    IN  IF /\ s <= Len(line)
           /\ line[i + 1] = "\\"
           /\ SubSeq(line, i + 2, i + 1 + Len(kw)) = kw
           /\ line[s] = "{"
           /\ close >= 2
        THEN [ok |-> TRUE, s0 |-> i, e0 |-> s + close, s |-> s, e |-> s + close - 1]
        ELSE NoMatch

\* \\(?:k1|k2|..)\{([^}]+)\} matched at offset i of line: the first
\* alternative that matches
RECURSIVE MatchAt(_, _, _)
MatchAt(line, i, kinds) ==
    IF kinds = <<>> THEN NoMatch
    ELSE IF MatchKw(line, i, Head(kinds)).ok THEN MatchKw(line, i, Head(kinds))
    ELSE MatchAt(line, i, Tail(kinds))

\* FindAllStringSubmatchIndex(line, -1) from offset i on: leftmost matches,
\* not overlapping
RECURSIVE FindAllFrom(_, _, _)
FindAllFrom(line, i, kinds) ==
    IF i >= Len(line) THEN <<>>
    ELSE LET m == MatchAt(line, i, kinds)
         IN  IF m.ok THEN <<m>> \o FindAllFrom(line, m.e0, kinds)
             ELSE FindAllFrom(line, i + 1, kinds)

FindAll(line, kinds) == FindAllFrom(line, 0, kinds)

\* the normalisation of getSlugAtPosition
NormalizeSlug(raw) == TrimPrefix(TrimSuffix(TrimSpace(raw), Ext_tex), RelPrefix)

\* the normalisation of analyzeDiagnostics
NormalizeDiagSlug(raw) == TrimSuffix(TrimSpace(raw), Ext_tex)

getSlugAtPositionExclusive(content, posLine, posChar) ==
    IF posLine >= Len(content) THEN <<>>
    ELSE LET line == content[posLine + 1]
             matches == FindAll(line, SlugKinds)
             hits == SelectSeq(matches, LAMBDA m : posChar >= m.s /\ posChar < m.e)
         IN  IF hits = <<>> THEN <<>>
             ELSE NormalizeSlug(SubSeq(line, hits[1].s + 1, hits[1].e))

\* getSlugAtPosition(content, pos); content is the sequence of its lines
getSlugAtPosition(content, posLine, posChar) ==
    IF posLine >= Len(content) THEN <<>>
    ELSE LET line == content[posLine + 1]
             matches == FindAll(line, SlugKinds)
             hits == SelectSeq(matches, LAMBDA m : posChar >= m.s /\ posChar <= m.e)
         IN  IF hits = <<>> THEN <<>>
             ELSE NormalizeSlug(SubSeq(line, hits[1].s + 1, hits[1].e))

\* Index.Get on a table
IndexGet(idx, slug) ==
    IF IndexHas(idx, slug) THEN [exists |-> TRUE, note |-> idx[slug]]
    ELSE [exists |-> FALSE, note |-> NoHeader]

LineDiagnosticsAllKinds(idx, line, lineNum) ==
    IF HasPrefix(TrimSpace(line), <<"%">>) THEN <<>>
    ELSE LET refs == SelectSeq(FindAll(line, SlugKinds),
                         LAMBDA m : ~IndexGet(idx, NormalizeDiagSlug(
                                         SubSeq(line, m.s + 1, m.e))).exists)
             todos == FindAll(line, TodoKinds)
         IN  [k \in DOMAIN refs |->
                 [line |-> lineNum, start |-> refs[k].s, end |-> refs[k].e,
                  severity |-> "error", message |-> "Note '%s' not found",
                  arg |-> NormalizeDiagSlug(SubSeq(line, refs[k].s + 1, refs[k].e))]]
             \o
             [k \in DOMAIN todos |->
                 [line |-> lineNum, start |-> todos[k].s0, end |-> todos[k].e0,
                  severity |-> "warning", message |-> "TODO: %s",
                  arg |-> SubSeq(line, todos[k].s + 1, todos[k].e)]]

LineDiagnosticsUntrimmed(idx, line, lineNum) ==
    IF HasPrefix(line, <<"%">>) THEN <<>>
    ELSE LET refs == SelectSeq(FindAll(line, DiagKinds),
                         LAMBDA m : ~IndexGet(idx, NormalizeDiagSlug(
                                         SubSeq(line, m.s + 1, m.e))).exists)
             todos == FindAll(line, TodoKinds)
         IN  [k \in DOMAIN refs |->
                 [line |-> lineNum, start |-> refs[k].s, end |-> refs[k].e,
                  severity |-> "error", message |-> "Note '%s' not found",
                  arg |-> NormalizeDiagSlug(SubSeq(line, refs[k].s + 1, refs[k].e))]]
             \o
             [k \in DOMAIN todos |->
                 [line |-> lineNum, start |-> todos[k].s0, end |-> todos[k].e0,
                  severity |-> "warning", message |-> "TODO: %s",
                  arg |-> SubSeq(line, todos[k].s + 1, todos[k].e)]]

\* the diagnostics analyzeDiagnostics appends for one line
LineDiagnostics(idx, line, lineNum) ==
    IF HasPrefix(TrimSpace(line), <<"%">>) THEN <<>>
    ELSE LET refs == SelectSeq(FindAll(line, DiagKinds),
                         LAMBDA m : ~IndexGet(idx, NormalizeDiagSlug(
                                         SubSeq(line, m.s + 1, m.e))).exists)
             todos == FindAll(line, TodoKinds)
         IN  [k \in DOMAIN refs |->
                 [line |-> lineNum, start |-> refs[k].s, end |-> refs[k].e,
                  severity |-> "error", message |-> "Note '%s' not found",
                  arg |-> NormalizeDiagSlug(SubSeq(line, refs[k].s + 1, refs[k].e))]]
             \o
             [k \in DOMAIN todos |->
                 [line |-> lineNum, start |-> todos[k].s0, end |-> todos[k].e0,
                  severity |-> "warning", message |-> "TODO: %s",
                  arg |-> SubSeq(line, todos[k].s + 1, todos[k].e)]]

\* analyzeDiagnostics(content) over the lines from lineNum on
RECURSIVE DiagnosticsFrom(_, _, _)
DiagnosticsFrom(idx, content, lineNum) ==
    IF lineNum >= Len(content) THEN <<>>
    ELSE LineDiagnostics(idx, content[lineNum + 1], lineNum)
         \o DiagnosticsFrom(idx, content, lineNum + 1)

analyzeDiagnostics(idx, content) == DiagnosticsFrom(idx, content, 0)

Kw_usepackage == <<"u", "s", "e", "p", "a", "c", "k", "a", "g", "e">>

\* \\kw\{([^}]*)$ on the text before the cursor: [ok, arg], arg the submatch
\* of the leftmost match
OpenArg(prefix, kw) ==
    LET starts == {i \in 0..(Len(prefix) - 1) :
                      /\ i + Len(kw) + 2 <= Len(prefix)
                      /\ prefix[i + 1] = "\\"
                      /\ SubSeq(prefix, i + 2, i + 1 + Len(kw)) = kw
                      /\ prefix[i + Len(kw) + 2] = "{"
                      /\ \A j \in (i + Len(kw) + 3)..Len(prefix) : prefix[j] # "}"}
    IN  IF starts = {} THEN [ok |-> FALSE, arg |-> <<>>]
        ELSE LET i == CHOOSE k \in starts : \A l \in starts : k <= l
             IN  [ok |-> TRUE, arg |-> SubSeq(prefix, i + Len(kw) + 3, Len(prefix))]

\* the slugs analyzeDiagnostics looks up in the index, in order
RECURSIVE DiagLookups(_)
DiagLookups(content) ==
    IF content = <<>> THEN <<>>
    ELSE (IF HasPrefix(TrimSpace(Head(content)), <<"%">>) THEN <<>>
          ELSE [k \in DOMAIN FindAll(Head(content), DiagKinds) |->
                   NormalizeDiagSlug(SubSeq(Head(content),
                       FindAll(Head(content), DiagKinds)[k].s + 1,
                       FindAll(Head(content), DiagKinds)[k].e))])
         \o DiagLookups(Tail(content))

NoLocation == [found |-> FALSE, uri |-> <<>>, line |-> 0, character |-> 0,
               endLine |-> 0, endCharacter |-> 0]

UriScheme == <<"f", "i", "l", "e", ":", "/", "/">>

DefinitionOfUnchecked(idx, content, posLine, posChar) ==
    LET slug == getSlugAtPosition(content, posLine, posChar)
        g == IndexGet(idx, slug)
    IN  IF slug = <<>> THEN NoLocation
        ELSE [found |-> TRUE, uri |-> UriScheme \o GetNotePath(g.note.Filename),
              line |-> 0, character |-> 0, endLine |-> 0, endCharacter |-> 0]

\* Definition, once the document is read: the location of the note of the
\* slug under the position
DefinitionOf(idx, content, posLine, posChar) ==
    LET slug == getSlugAtPosition(content, posLine, posChar)
        g == IndexGet(idx, slug)
    IN  IF slug = <<>> \/ ~g.exists THEN NoLocation
        ELSE [found |-> TRUE, uri |-> UriScheme \o GetNotePath(g.note.Filename),
              line |-> 0, character |-> 0, endLine |-> 0, endCharacter |-> 0]

\* the character U+0060 of the hover text
Backquote == "bq"

NoHover == [found |-> FALSE, value |-> <<>>]

\* Hover, once the document is read: the lines of the rendered text
HoverOf(idx, content, posLine, posChar) ==
    LET slug == getSlugAtPosition(content, posLine, posChar)
        g == IndexGet(idx, slug)
    IN  IF slug = <<>> \/ ~g.exists THEN NoHover
        ELSE [found |-> TRUE,
              value |-> << <<"*", "*">> \o g.note.Title \o <<"*", "*">>,
                           <<>>,
                           <<"S", "l", "u", "g", ":", " ", Backquote>> \o g.note.Slug \o <<Backquote>>,
                           <<"D", "a", "t", "e", ":", " ">> \o g.note.Date >>
                        \o (IF Len(g.note.Tags) > 0
                            THEN << <<"T", "a", "g", "s", ":", " ">> \o Join(g.note.Tags, <<",", " ">>) >>
                            ELSE <<>>)]

(***************************************************************************)
(* Documents: the URIs and texts of the requests, IsManaged, GetDocument.  *)
(***************************************************************************)

\* the greatest line and character of a request's position
MaxPosLine == 1
MaxPosChar == 17

U_a == <<"f", "i", "l", "e", ":", "/", "/", "/", "n", "o", "t", "e", "s", "/", "a", ".", "t", "e", "x">>
U_x == <<"f", "i", "l", "e", ":", "/", "/", "/", "t", "m", "p", "/", "x", ".", "t", "e", "x">>
Uris == {U_a, U_x}

L_ref == <<"\\", "r", "e", "f", "{", "a", "}">>
L_rel == <<"\\", "r", "e", "f", "{", ".", ".", "/", "n", "o", "t", "e", "s", "/", "a", "}">>
L_cite == <<"\\", "c", "i", "t", "e", "{", " ", "b", ".", "t", "e", "x", " ", "}">>
L_cmt == <<"%", " ", "\\", "r", "e", "f", "{", "c", "}">>
L_in == <<"\\", "i", "n", "p", "u", "t", "{", "\\", "r", "e", "f", "{", "a", "}">>
L_miss == <<"\\", "r", "e", "f", "{", "c", "}", "\\", "t", "o", "d", "o", "{", "x", "}">>
L_text == <<"t", "e", "x", "t">>

T_cmt == <<L_cmt, L_miss>>
T_two == <<L_ref, L_cite>>
Texts == {<<L_ref>>, <<L_rel>>, <<L_cite>>, <<L_in>>, <<L_miss>>, <<L_text>>, T_cmt, T_two}

\* uriToPath(uri), for the URIs of at least seven characters
uriToPath(uri) ==
    IF TrimPrefix(uri, UriScheme) # <<>> THEN SubSeq(uri, 8, Len(uri)) ELSE uri

\* the working directory of the process
Cwd == <<"/", "h", "o", "m", "e">>

\* filepath.Abs(path), for paths that hold no ".", ".." or doubled separator
FilepathAbs(path) ==
    IF HasPrefix(path, <<"/">>) THEN path ELSE Cwd \o <<"/">> \o path

IsManaged(uri) ==
    LET path == uriToPath(uri)
    IN  /\ path # <<>>
        /\ HasSuffix(FilepathAbs(path), Ext_tex)
        /\ HasPrefix(FilepathAbs(path), FilepathAbs(NotesPath))

NoDocuments == [u \in {} |-> <<>>]

\* GetDocument(uri): the buffered text, else the file's content: [err, content]
GetDocument(docs, d, uri) ==
    IF uri \in DOMAIN docs THEN [err |-> FALSE, content |-> docs[uri]]
    ELSE ReadFile(d, uriToPath(uri))

NoPublished == [valid |-> FALSE, content |-> <<>>, diags |-> <<>>]

\* a URI shorter than the scheme prefix uriToPath cuts off
U_s == <<"a", ".", "t", "e", "x">>

\* uriToPath(uri) panics: path[7:] of a string shorter than seven bytes that
\* TrimPrefix left non-empty
uriToPathPanics(uri) == TrimPrefix(uri, UriScheme) # <<>> /\ Len(uri) < Len(UriScheme)

Ext_sty == <<".", "s", "t", "y">>

\* the templates directory as os.ReadDir finds it: unreadable, or holding two
\* templates, a directory and a file that is no template
T_a == <<"a", ".", "s", "t", "y">>
T_d == <<"d", ".", "s", "t", "y">>
T_n == <<"n", ".", "t", "x", "t">>
T_t == <<"t", ".", "s", "t", "y">>
TemplateDirs ==
    {[err |-> TRUE, entries |-> <<>>],
     [err |-> FALSE,
      entries |-> <<[name |-> T_a, isDir |-> FALSE], [name |-> T_d, isDir |-> TRUE],
                    [name |-> T_n, isDir |-> FALSE], [name |-> T_t, isDir |-> FALSE]>>]}

\* listTemplates over the entries left
RECURSIVE listTemplatesLoop(_)
listTemplatesLoop(entries) ==
    IF entries = <<>> THEN <<>>
    ELSE IF Head(entries).isDir \/ ~HasSuffix(Head(entries).name, Ext_sty)
    THEN listTemplatesLoop(Tail(entries))
    ELSE <<TrimSuffix(Head(entries).name, Ext_sty)>> \o listTemplatesLoop(Tail(entries))

\* getTemplateCompletions: no item when the directory cannot be listed
getTemplateCompletions(tdir) ==
    IF tdir.err THEN <<>>
    ELSE [k \in DOMAIN listTemplatesLoop(tdir.entries) |->
             [label |-> listTemplatesLoop(tdir.entries)[k], detail |-> <<>>,
              kind |-> "module"]]

\* getRefCompletions, notes being what s.index.All() returned
getRefCompletions(notes) ==
    [k \in DOMAIN notes |->
        [label |-> notes[k].Slug, detail |-> notes[k].Title, kind |-> "reference"]]

\* getSnippetCompletions
getSnippetCompletions ==
    <<[label |-> <<"\\", "t", "o", "d", "o", "{", "}">>,
       detail |-> <<"T", "O", "D", "O", " ", "m", "a", "r", "k", "e", "r">>,
       kind |-> "snippet"],
      [label |-> <<"\\", "i", "n", "c", "l", "u", "d", "e", "g", "r", "a", "p", "h", "i", "c", "s">>,
       detail |-> <<"I", "n", "c", "l", "u", "d", "e", " ", "a", "s", "s", "e", "t">>,
       kind |-> "snippet"]>>

FilterItemsAll(items, prefix) == items

\* the filter of Completion: with a non-empty prefix, the items whose label
\* starts with it
FilterItems(items, prefix) ==
    IF prefix # <<>> THEN SelectSeq(items, LAMBDA it : HasPrefix(it.label, prefix))
    ELSE items

\* Completion, once the document is read; notes is what s.index.All() returns
\* when it is called, tdir the templates directory
CompletionOf(notes, tdir, content, posLine, posChar) ==
    IF posLine >= Len(content) THEN <<>>
    ELSE IF posChar > Len(content[posLine + 1]) THEN <<>>
    ELSE LET linePrefix == SubSeq(content[posLine + 1], 1, posChar)
             ref == OpenArg(linePrefix, Kw_ref)
             pkg == OpenArg(linePrefix, Kw_usepackage)
             items1 == IF ref.ok THEN FilterItems(getRefCompletions(notes), ref.arg)
                       ELSE <<>>
             items2 == IF pkg.ok
                       THEN items1 \o FilterItems(getTemplateCompletions(tdir), pkg.arg)
                       ELSE items1
         IN  IF Len(items2) = 0 THEN getSnippetCompletions ELSE items2

NoReply == [method |-> "none", uri |-> <<>>, line |-> 0, character |-> 0,
            read |-> FALSE, content |-> <<>>, location |-> NoLocation,
            hover |-> NoHover, slug |-> <<>>, items |-> <<>>, notes |-> <<>>,
            tdir |-> [err |-> TRUE, entries |-> <<>>], err |-> FALSE,
            failed |-> FALSE]

(***************************************************************************)
(* sync.RWMutex: w is the task that called Lock (0: none), held whether it *)
(* has the lock, r the tasks that hold a read lock.                        *)
(***************************************************************************)

NoTask == 0

FreeLock == [w |-> NoTask, held |-> FALSE, r |-> {}]

\* the number of tasks calling the Index or running request handlers
NTasks == 2

Tasks == 1..NTasks

\* the task running handleFileEvents, when it takes the locks step by step
Watcher == NTasks + 1

AllTasks == Tasks \cup {Watcher}

\* RLock returns at once unless a writer has called Lock
CanRLock(mu) == mu.w = NoTask

RLock(mu, t) == [mu EXCEPT !.r = @ \cup {t}]

RUnlock(mu, t) == [mu EXCEPT !.r = @ \ {t}]

\* Lock first excludes the other writers and the readers yet to come ...
CanLockAnnounce(mu) == mu.w = NoTask

LockAnnounce(mu, t) == [mu EXCEPT !.w = t]

\* ... then waits for the readers inside to leave
CanLockAcquire(mu, t) == mu.w = t /\ ~mu.held /\ mu.r = {}

LockAcquire(mu, t) == [mu EXCEPT !.held = TRUE]

Unlock(mu, t) == [mu EXCEPT !.w = NoTask, !.held = FALSE]

\* task t holds mu, for reading or writing
Holds(mu, t) == t \in mu.r \/ (mu.w = t /\ mu.held)

NoRes == [exists |-> FALSE, note |-> NoHeader, count |-> 0, all |-> <<>>]

\* a task that runs nothing
IdleTask ==
    [op |-> "idle", pc |-> "idle", call |-> "none", ret |-> "idle",
     slug |-> <<>>, hdr |-> NoHeader, res |-> NoRes,
     snap |-> EmptyIndex, cand |-> {}, over |-> FALSE, visited |-> {},
     uri |-> <<>>, text |-> <<>>, content |-> <<>>, line |-> 0, character |-> 0,
     todo |-> <<>>, path |-> <<>>, looked |-> <<>>, pubs |-> 0]

VARIABLES
    fs,         \* the notes directory: name -> entry
    dirOK,      \* the notes directory can be enumerated
    nchanges,   \* changes the environment has made so far
    index,      \* Index.notes
    events,     \* change events pending on watcher.Events (paths)
    watching,   \* the watch on the notes directory is installed
    shutdown,   \* "none", "cancelled" (ctx.Done) or "closed" (watcher.Close)
    main,       \* the task running Run / RebuildIndex
    w,          \* the task running handleFileEvents
    consumed,   \* history: the events the watcher received, in order
    updated,    \* history: the paths of the completed incremental updates
    lastRead,   \* history: per name, the content most recently read from it
    last,       \* history: the last index operation and the index before it
    quiet,      \* history: nothing but RebuildIndex ran since the previous call began
    imu,        \* Index.mu
    smu,        \* LanguageServer.mu
    documents,  \* LanguageServer.documents: uri -> text
    tasks,      \* the tasks calling the Index or running request handlers
    published,  \* per uri, the diagnostics last sent to the client
    reply       \* the last request answered and its reply

vars == <<fs, dirOK, nchanges, index, events, watching, shutdown, main, w,
          consumed, updated, lastRead, last, quiet,
          imu, smu, documents, tasks, published, reply>>

appVars == <<imu, smu, documents, tasks, published, reply>>

dirVars == <<fs, dirOK, nchanges, events, watching, shutdown, main, w,
             consumed, updated, lastRead, last, quiet>>

\* no request was handled, no document is open, no task runs
AppIdle ==
    /\ imu = FreeLock
    /\ smu = FreeLock
    /\ documents = NoDocuments
    /\ tasks = [t \in AllTasks |-> IdleTask]
    /\ published = [u \in Uris |-> NoPublished]
    /\ reply = NoReply

syncVars == <<index, main, w, consumed, updated, lastRead, last>>

NoOp == [op |-> "none", path |-> <<>>, content |-> <<>>, pre |-> EmptyIndex]

\* the task state on entry to RebuildIndex; prevValid: this call directly follows
\* a successful one, with prevIndex the index that call left
\* what a rebuild has observed of a listed entry it has not reached yet
NotReached == [kind |-> "notreached", content |-> <<>>, readable |-> FALSE]

RebuildCall(idx, follows) ==
    [pc |-> "readdir", entries |-> <<>>, headers |-> <<>>,
     pre |-> idx, listing |-> <<>>, seen |-> [n \in Names |-> NotReached],
     prevValid |-> follows, prevIndex |-> idx, calls |-> 0]

\* the notes directories a run starts from: empty, one note, or three notes of
\* which two map to one slug and a file that is no note
InitNotes == {{}, {N_a2}, {N_a1, N_a2, N_b, N_txt}}

InitFS == {[n \in Names |-> IF n \in S THEN File(K_meta, TRUE) ELSE Absent] : S \in InitNotes}

Init ==
    /\ fs \in InitFS
    /\ dirOK = TRUE
    /\ nchanges = 0
    /\ index = EmptyIndex
    /\ events = <<>>
    /\ watching = FALSE
    /\ shutdown = "none"
    /\ main = RebuildCall(EmptyIndex, FALSE)
    /\ w = [pc |-> "off", path |-> <<>>, ret |-> "off"]
    /\ consumed = <<>>
    /\ updated = <<>>
    /\ lastRead = [n \in Names |-> [seen |-> FALSE, content |-> <<>>]]
    /\ last = NoOp
    /\ quiet = TRUE
    /\ AppIdle

(***************************************************************************)
(* The environment: other processes change the notes directory; the watch  *)
(* source queues one event per change once the watch is installed.         *)
(***************************************************************************)

Notify(name) ==
    IF watching /\ shutdown # "closed"
    THEN Append(events, GetNotePath(name))
    ELSE events

Change(name, entry) ==
    /\ nchanges < MaxChanges
    /\ Len(events) < MaxQueue
    /\ shutdown = "none"
    /\ main.pc # "exit"
    /\ fs' = [fs EXCEPT ![name] = entry]
    /\ events' = Notify(name)
    /\ nchanges' = nchanges + 1
    /\ quiet' = FALSE
    /\ UNCHANGED <<dirOK, watching, shutdown>>
    /\ UNCHANGED syncVars
    /\ UNCHANGED appVars

\* a file is created, or its content replaced
EnvWriteFile ==
    \E n \in FileNames, c \in Contents :
        /\ fs[n].kind \in {"absent", "file"}
        /\ Change(n, File(c, IF fs[n].kind = "file" THEN fs[n].readable ELSE TRUE))

\* a file or directory is removed
EnvRemove ==
    \E n \in Names :
        /\ fs[n].kind # "absent"
        /\ Change(n, Absent)

\* a file's permissions change
EnvChmod ==
    \E n \in FileNames :
        /\ fs[n].kind = "file"
        /\ Change(n, File(fs[n].content, ~fs[n].readable))

\* a subdirectory is created
EnvMkdir ==
    \E n \in DirNames :
        /\ fs[n].kind = "absent"
        /\ Change(n, Directory)

\* the notes directory's own permissions change (seen only by os.ReadDir)
EnvChmodDir ==
    /\ nchanges < MaxChanges
    /\ main.pc = "readdir"
    /\ dirOK' = ~dirOK
    /\ nchanges' = nchanges + 1
    /\ quiet' = FALSE
    /\ UNCHANGED <<fs, events, watching, shutdown>>
    /\ UNCHANGED syncVars
    /\ UNCHANGED appVars

(***************************************************************************)
(* RebuildIndex, as run by Run at startup (and called directly by the      *)
(* tests).  The directory can change between its file reads.               *)
(***************************************************************************)

envVars == <<fs, dirOK, nchanges, events, shutdown>>

listNoteHeadersStepBreak(d, entries, headers) ==
    LET e == Head(entries)
        r == parseNoteHeader(d, e.name)
    IN  IF e.isDir \/ ~HasSuffix(e.name, Ext_tex)
        THEN [entries |-> Tail(entries), headers |-> headers, read |-> FALSE, r |-> r]
        ELSE IF r.err
        THEN [entries |-> <<>>, headers |-> headers, read |-> FALSE, r |-> r]
        ELSE [entries |-> Tail(entries), headers |-> Append(headers, r.header),
              read |-> TRUE, r |-> r]

\* one round of the loop of listNoteHeaders over the entries left
listNoteHeadersStep(d, entries, headers) ==
    LET e == Head(entries)
        r == parseNoteHeader(d, e.name)
    IN  IF e.isDir \/ ~HasSuffix(e.name, Ext_tex)
        THEN [entries |-> Tail(entries), headers |-> headers, read |-> FALSE, r |-> r]
        ELSE IF r.err
        THEN [entries |-> Tail(entries), headers |-> headers, read |-> FALSE, r |-> r]
        ELSE [entries |-> Tail(entries), headers |-> Append(headers, r.header),
              read |-> TRUE, r |-> r]

\* listNoteHeaders: os.ReadDir; its failure is RebuildIndex's error
RebuildReadDir ==
    /\ main.pc = "readdir"
    /\ main' = IF dirOK
               THEN [main EXCEPT !.pc = "parse", !.entries = ReadDir(fs),
                                 !.listing = ReadDir(fs)]
               ELSE [main EXCEPT !.pc = "failed"]
    /\ UNCHANGED <<index, w, consumed, updated, lastRead, last, quiet, watching>>
    /\ UNCHANGED envVars
    /\ UNCHANGED appVars

\* listNoteHeaders: the next entry is skipped, or read and parsed
RebuildParse ==
    /\ main.pc = "parse"
    /\ main.entries # <<>>
    /\ \E e \in {Head(main.entries)},
          st \in {listNoteHeadersStep(fs, main.entries, main.headers)} :
           /\ main' = [main EXCEPT !.entries = st.entries, !.headers = st.headers,
                                   !.seen[e.name] = fs[e.name]]
           /\ lastRead' = IF st.read
                          THEN [lastRead EXCEPT ![e.name] =
                                    [seen |-> TRUE, content |-> st.r.content]]
                          ELSE lastRead
    /\ UNCHANGED <<index, w, consumed, updated, last, quiet, watching>>
    /\ UNCHANGED envVars
    /\ UNCHANGED appVars

\* RebuildIndex: every header listed is Set, and the call returns nil
RebuildApply ==
    /\ main.pc = "parse"
    /\ main.entries = <<>>
    /\ index' = SetAll(index, main.headers)
    /\ main' = [main EXCEPT !.pc = "returned"]
    /\ last' = [op |-> "rebuild", path |-> <<>>, content |-> <<>>, pre |-> index]
    /\ UNCHANGED <<w, consumed, updated, lastRead, quiet, watching>>
    /\ UNCHANGED envVars
    /\ UNCHANGED appVars

\* Run: the watch on the notes directory is installed, the watcher task started
RunWatch ==
    /\ main.pc = "returned"
    /\ watching' = TRUE
    /\ w' = [pc |-> "select", path |-> <<>>, ret |-> "select"]
    /\ main' = [main EXCEPT !.pc = "serving"]
    /\ UNCHANGED <<index, consumed, updated, lastRead, last, quiet>>
    /\ UNCHANGED envVars
    /\ UNCHANGED appVars

\* Run: the initial rebuild failed, Run returns its error
RunFail ==
    /\ main.pc = "failed"
    /\ main' = [main EXCEPT !.pc = "exit"]
    /\ UNCHANGED <<index, w, consumed, updated, lastRead, last, quiet, watching>>
    /\ UNCHANGED envVars
    /\ UNCHANGED appVars

\* the context given to Run is cancelled
CtxCancel ==
    /\ main.pc = "serving"
    /\ shutdown = "none"
    /\ shutdown' = "cancelled"
    /\ UNCHANGED <<fs, dirOK, nchanges, events, watching, quiet>>
    /\ UNCHANGED syncVars
    /\ UNCHANGED appVars

\* Run: the connection is done; the deferred watcher.Close closes the channel
ConnDone ==
    /\ main.pc = "serving"
    /\ shutdown' = "closed"
    /\ events' = <<>>
    /\ main' = [main EXCEPT !.pc = "exit"]
    /\ UNCHANGED <<fs, dirOK, nchanges, watching, quiet>>
    /\ UNCHANGED <<index, w, consumed, updated, lastRead, last>>
    /\ UNCHANGED appVars

(***************************************************************************)
(* handleFileEvents and updateIndexForFile.                                *)
(***************************************************************************)

\* handleFileEvents: an event is received; a .tex path starts an update
WRecv ==
    /\ w.pc = "select"
    /\ events # <<>>
    /\ shutdown # "closed"
    /\ events' = Tail(events)
    /\ consumed' = Append(consumed, Head(events))
    /\ IF IsNoteEvent(Head(events))
       THEN /\ w' = [w EXCEPT !.pc = "stat", !.path = Head(events)]
            /\ last' = last
       ELSE /\ w' = w
            /\ last' = [op |-> "ignored", path |-> Head(events), content |-> <<>>,
                        pre |-> index]
    /\ UNCHANGED <<index, main, updated, lastRead, quiet, watching>>
    /\ UNCHANGED <<fs, dirOK, nchanges, shutdown>>
    /\ UNCHANGED appVars

\* updateIndexForFile: os.Stat; a path that does not exist has its slug deleted
WStat ==
    /\ w.pc = "stat"
    /\ IF StatNotExist(fs, w.path)
       THEN /\ index' = updateAbsent(index, w.path)
            /\ w' = [w EXCEPT !.pc = w.ret, !.path = <<>>]
            /\ updated' = Append(updated, w.path)
            /\ last' = [op |-> "delete", path |-> w.path, content |-> <<>>,
                        pre |-> index]
       ELSE /\ w' = [w EXCEPT !.pc = "parse"]
            /\ UNCHANGED <<index, updated, last>>
    /\ quiet' = FALSE
    /\ UNCHANGED <<main, consumed, lastRead, watching>>
    /\ UNCHANGED envVars
    /\ UNCHANGED appVars

\* updateIndexForFile: parseNoteHeader, and Set when it gave a header
WParse ==
    /\ w.pc = "parse"
    /\ \E r \in {parseNoteHeader(fs, BaseT(w.path))} :
           IF r.err
           THEN /\ index' = updateParsed(index, w.path, r)
                /\ last' = [op |-> "parsefail", path |-> w.path, content |-> <<>>,
                            pre |-> index]
                /\ UNCHANGED lastRead
           ELSE /\ index' = updateParsed(index, w.path, r)
                /\ lastRead' = [lastRead EXCEPT ![BaseT(w.path)] =
                                   [seen |-> TRUE, content |-> r.content]]
                /\ last' = [op |-> "upsert", path |-> w.path, content |-> r.content,
                            pre |-> index]
    /\ w' = [w EXCEPT !.pc = w.ret, !.path = <<>>]
    /\ updated' = Append(updated, w.path)
    /\ quiet' = FALSE
    /\ UNCHANGED <<main, consumed, watching>>
    /\ UNCHANGED envVars
    /\ UNCHANGED appVars

\* handleFileEvents: ctx.Done, or the event channel is closed
WExit ==
    /\ w.pc = "select"
    /\ shutdown # "none"
    /\ w' = [w EXCEPT !.pc = "done"]
    /\ UNCHANGED <<index, main, consumed, updated, lastRead, last, quiet, watching>>
    /\ UNCHANGED envVars
    /\ UNCHANGED appVars

Next ==
    \/ EnvWriteFile
    \/ EnvRemove
    \/ EnvChmod
    \/ EnvChmodDir
    \/ RebuildReadDir
    \/ RebuildParse
    \/ RebuildApply
    \/ RunWatch
    \/ RunFail
    \/ CtxCancel
    \/ ConnDone
    \/ WRecv
    \/ WStat
    \/ WParse
    \/ WExit

Spec == Init /\ [][Next]_vars

(***************************************************************************)
(* RebuildIndex and updateIndexForFile called directly, one call at a time, *)
(* on a server that is not running (as the tests call them).               *)
(***************************************************************************)

InitDriver ==
    /\ fs \in InitFS
    /\ dirOK = TRUE
    /\ nchanges = 0
    /\ index = EmptyIndex
    /\ events = <<>>
    /\ watching = FALSE
    /\ shutdown = "none"
    /\ main = [RebuildCall(EmptyIndex, FALSE) EXCEPT !.pc = "idle"]
    /\ w = [pc |-> "off", path |-> <<>>, ret |-> "off"]
    /\ consumed = <<>>
    /\ updated = <<>>
    /\ lastRead = [n \in Names |-> [seen |-> FALSE, content |-> <<>>]]
    /\ last = NoOp
    /\ quiet = FALSE
    /\ AppIdle

\* ls.RebuildIndex(ctx) is called
DriverRebuild ==
    /\ main.pc \in {"idle", "returned", "failed"}
    /\ w.pc = "off"
    /\ main.calls < MaxCalls
    /\ main' = [RebuildCall(index, main.pc = "returned" /\ quiet)
                   EXCEPT !.calls = main.calls + 1]
    /\ quiet' = TRUE
    /\ UNCHANGED <<index, w, consumed, updated, lastRead, last, watching>>
    /\ UNCHANGED envVars
    /\ UNCHANGED appVars

\* ls.updateIndexForFile(path) is called
DriverUpdate ==
    /\ main.pc \in {"idle", "returned", "failed"}
    /\ w.pc = "off"
    /\ \E n \in Names : w' = [pc |-> "stat", path |-> GetNotePath(n), ret |-> "off"]
    /\ main.calls < MaxCalls
    /\ main' = [main EXCEPT !.pc = "idle", !.calls = @ + 1]
    /\ quiet' = FALSE
    /\ UNCHANGED <<index, consumed, updated, lastRead, last, watching>>
    /\ UNCHANGED envVars
    /\ UNCHANGED appVars

NextDriver ==
    \/ EnvWriteFile
    \/ EnvRemove
    \/ EnvChmod
    \/ EnvMkdir
    \/ EnvChmodDir
    \/ DriverRebuild
    \/ DriverUpdate
    \/ RebuildReadDir
    \/ RebuildParse
    \/ RebuildApply
    \/ WStat
    \/ WParse

SpecDriver == InitDriver /\ [][NextDriver]_vars

(***************************************************************************)
(* Requests handled one at a time, each handler run from its call to its   *)
(* return, on a server whose index was built from the notes directory.     *)
(***************************************************************************)

\* listNoteHeaders over the entries left
RECURSIVE listNoteHeadersLoop(_, _, _)
listNoteHeadersLoop(d, entries, headers) ==
    IF entries = <<>> THEN headers
    ELSE listNoteHeadersLoop(d, listNoteHeadersStep(d, entries, headers).entries,
                             listNoteHeadersStep(d, entries, headers).headers)

\* the index RebuildIndex builds from directory d
BuiltIndex(d) == SetAll(EmptyIndex, listNoteHeadersLoop(d, ReadDir(d), <<>>))

\* the notes directories the queries run on: those of InitFS, and one whose
\* only note has a date prefix in its filename
QueryFS ==
    InitFS \cup {[n \in Names |-> IF n = N_a1 THEN File(K_meta, TRUE) ELSE Absent]}

InitQuery ==
    /\ fs \in QueryFS
    /\ dirOK = TRUE
    /\ nchanges = 0
    /\ index = BuiltIndex(fs)
    /\ events = <<>>
    /\ watching = FALSE
    /\ shutdown = "none"
    /\ main = [RebuildCall(EmptyIndex, FALSE) EXCEPT !.pc = "idle"]
    /\ w = [pc |-> "off", path |-> <<>>, ret |-> "off"]
    /\ consumed = <<>>
    /\ updated = <<>>
    /\ lastRead = [n \in Names |-> [seen |-> FALSE, content |-> <<>>]]
    /\ last = NoOp
    /\ quiet = FALSE
    /\ AppIdle

\* two spans on one line, and a line that ends inside an open package span
\* and an open reference span
L_pair == <<"\\", "r", "e", "f", "{", "a", "}", "\\", "c", "i", "t", "e", "{", "c", "}">>
L_both == <<"\\", "u", "s", "e", "p", "a", "c", "k", "a", "g", "e", "{", "\\", "r", "e", "f", "{">>
L_pkg == <<"\\", "u", "s", "e", "p", "a", "c", "k", "a", "g", "e", "{", "t">>
L_ctodo == <<" ", "%", "\\", "t", "o", "d", "o", "{", "x", "}", "\\", "r", "e", "f", "{", "c", "}">>
T_ctodo == <<L_ctodo, L_miss>>
L_refpkg == <<"\\", "r", "e", "f", "{", "\\", "u", "s", "e", "p", "a", "c", "k", "a", "g", "e", "{">>

\* the texts and the URIs of the requests
QueryTexts == Texts \cup {<<L_pair>>, <<L_both>>, <<L_pkg>>, <<L_refpkg>>, T_ctodo}
QueryUris == Uris \cup {U_s}

\* what s.index.All() can return: the headers of the table in any order
AllOrders(idx) ==
    LET n == Cardinality(DOMAIN idx)
    IN  {[k \in 1..n |-> idx[o[k]]] :
            o \in {f \in [1..n -> DOMAIN idx] :
                      \A i, j \in 1..n : i # j => f[i] # f[j]}}

\* the store of DidOpen and DidChange, and publishDiagnostics
StoreAndPublish(method, uri, text) ==
    /\ documents' = [u \in DOMAIN documents \cup {uri} |->
                         IF u = uri THEN text ELSE documents[u]]
    /\ published' = [published EXCEPT ![uri] =
                         [valid |-> TRUE, content |-> text,
                          diags |-> analyzeDiagnostics(index, text)]]
    /\ reply' = [NoReply EXCEPT !.method = method, !.uri = uri, !.content = text]

Ignored(method, uri) ==
    /\ reply' = [NoReply EXCEPT !.method = method, !.uri = uri]
    /\ UNCHANGED <<documents, published>>

\* the handler panics in IsManaged (uriToPath): the process ends
Panicked(method, uri) ==
    /\ reply' = [NoReply EXCEPT !.method = method, !.uri = uri, !.failed = TRUE]
    /\ UNCHANGED <<documents, published>>

QDidOpen ==
    /\ ~reply.failed
    /\ \E uri \in QueryUris, text \in QueryTexts :
           IF uriToPathPanics(uri) THEN Panicked("didOpen", uri)
           ELSE IF ~IsManaged(uri) THEN Ignored("didOpen", uri)
           ELSE StoreAndPublish("didOpen", uri, text)
    /\ UNCHANGED <<index, imu, smu, tasks>>
    /\ UNCHANGED dirVars

QDidChange ==
    /\ ~reply.failed
    /\ \E uri \in QueryUris, changes \in {<<>>} \cup {<<text>> : text \in QueryTexts} :
           IF uriToPathPanics(uri) THEN Panicked("didChange", uri)
           ELSE IF ~IsManaged(uri) \/ Len(changes) = 0 THEN Ignored("didChange", uri)
           ELSE StoreAndPublish("didChange", uri, changes[1])
    /\ UNCHANGED <<index, imu, smu, tasks>>
    /\ UNCHANGED dirVars

\* textDocument/didClose: the switch of handler() has no case for it, the
\* default answers jsonrpc2.ErrMethodNotFound and DidClose is not called
QDidClose ==
    /\ ~reply.failed
    /\ \E uri \in QueryUris :
           reply' = [NoReply EXCEPT !.method = "didClose", !.uri = uri, !.err = TRUE]
    /\ UNCHANGED <<index, imu, smu, tasks, documents, published>>
    /\ UNCHANGED dirVars

QCompletion ==
    /\ ~reply.failed
    /\ \E uri \in QueryUris, l \in 0..MaxPosLine, c \in 0..MaxPosChar,
          notes \in AllOrders(index), tdir \in TemplateDirs :
           \* the position is not looked at for a URI that is not managed
           /\ IsManaged(uri) \/ (l = 0 /\ c = 0)
           /\ LET g == GetDocument(documents, fs, uri)
                  rq == [NoReply EXCEPT !.method = "completion", !.uri = uri,
                                        !.line = l, !.character = c]
              IN  reply' = IF uriToPathPanics(uri) THEN [rq EXCEPT !.failed = TRUE]
                           ELSE IF ~IsManaged(uri) \/ g.err THEN rq
                           ELSE [rq EXCEPT !.read = TRUE, !.content = g.content,
                                           !.notes = notes, !.tdir = tdir,
                                           !.items = CompletionOf(notes, tdir, g.content, l, c)]
    /\ UNCHANGED <<index, imu, smu, tasks, documents, published>>
    /\ UNCHANGED dirVars

QDefinition ==
    /\ ~reply.failed
    /\ \E uri \in QueryUris, l \in 0..MaxPosLine, c \in 0..MaxPosChar :
           \* the position is not looked at for a URI that is not managed
           /\ IsManaged(uri) \/ (l = 0 /\ c = 0)
           /\ LET g == GetDocument(documents, fs, uri)
                  rq == [NoReply EXCEPT !.method = "definition", !.uri = uri,
                                        !.line = l, !.character = c]
              IN  reply' = IF uriToPathPanics(uri) THEN [rq EXCEPT !.failed = TRUE]
                           ELSE IF ~IsManaged(uri) \/ g.err THEN rq
                           ELSE [rq EXCEPT !.read = TRUE, !.content = g.content,
                                           !.slug = getSlugAtPosition(g.content, l, c),
                                           !.location = DefinitionOf(index, g.content, l, c)]
    /\ UNCHANGED <<index, imu, smu, tasks, documents, published>>
    /\ UNCHANGED dirVars

QHover ==
    /\ ~reply.failed
    /\ \E uri \in QueryUris, l \in 0..MaxPosLine, c \in 0..MaxPosChar :
           \* the position is not looked at for a URI that is not managed
           /\ IsManaged(uri) \/ (l = 0 /\ c = 0)
           /\ LET g == GetDocument(documents, fs, uri)
                  rq == [NoReply EXCEPT !.method = "hover", !.uri = uri,
                                        !.line = l, !.character = c]
              IN  reply' = IF uriToPathPanics(uri) THEN [rq EXCEPT !.failed = TRUE]
                           ELSE IF ~IsManaged(uri) \/ g.err THEN rq
                           ELSE [rq EXCEPT !.read = TRUE, !.content = g.content,
                                           !.slug = getSlugAtPosition(g.content, l, c),
                                           !.hover = HoverOf(index, g.content, l, c)]
    /\ UNCHANGED <<index, imu, smu, tasks, documents, published>>
    /\ UNCHANGED dirVars

NextQuery ==
    \/ QDidOpen
    \/ QDidChange
    \/ QDidClose
    \/ QCompletion
    \/ QDefinition
    \/ QHover

SpecQuery == InitQuery /\ [][NextQuery]_vars

(***************************************************************************)
(* The methods of Index, step by step: the lock is taken, the table read   *)
(* or written, the lock released (the deferred call), the method returns   *)
(* to the pc its caller waits at.                                          *)
(***************************************************************************)

LockModeShared(call) == "rlock"

\* the lock a method takes: Lock in Set and Delete, RLock in the others
LockMode(call) == IF call \in {"Set", "Delete"} THEN "lock" ELSE "rlock"

\* task enters method call of the Index; cand (history) starts as what the
\* table holds for the slug when a Get is called
IndexCall(task, call, slug, hdr, ret) ==
    [task EXCEPT !.pc = LockMode(call), !.call = call, !.slug = slug, !.hdr = hdr,
                 !.ret = ret, !.res = NoRes, !.snap = EmptyIndex,
                 !.cand = IF call = "Get" THEN {IndexGet(index, slug)} ELSE {},
                 !.over = FALSE, !.visited = {}]

\* history: a write of slug by task t, leaving the table idx, is admissible for
\* the Gets of the slug that have not read yet, and replaces the earlier writes
NoteWrite(t, slug, idx) ==
    [u \in AllTasks |->
        IF u = t THEN [tasks[t] EXCEPT !.pc = "release"]
        ELSE IF tasks[u].call = "Get" /\ tasks[u].slug = slug
                /\ tasks[u].pc \in {"rlock", "body"}
        THEN [tasks[u] EXCEPT !.cand = @ \cup {IndexGet(idx, slug)}]
        ELSE IF tasks[u].call \in {"Set", "Delete"} /\ tasks[u].slug = slug
                /\ tasks[u].pc \notin {"rlock", "lock", "lockwait", "body"}
        THEN [tasks[u] EXCEPT !.over = TRUE]
        ELSE tasks[u]]

\* the method returns to its caller: a caller that goes on (to task.ret) has
\* used the result, and the locals of the call are dead
Returned(task) ==
    IF task.ret = "done" THEN [task EXCEPT !.pc = "done"]
    ELSE [task EXCEPT !.pc = task.ret, !.call = "none", !.ret = "idle",
                      !.slug = <<>>, !.hdr = NoHeader, !.res = NoRes,
                      !.snap = EmptyIndex, !.cand = {}, !.over = FALSE,
                      !.visited = {}, !.path = <<>>]

ixFrame == <<smu, documents, published, reply>>

\* i.mu.RLock()
IxRLock ==
    /\ \E t \in AllTasks :
           /\ tasks[t].pc = "rlock"
           /\ CanRLock(imu)
           /\ imu' = RLock(imu, t)
           /\ tasks' = [tasks EXCEPT ![t].pc = "body", ![t].snap = index]
    /\ UNCHANGED index
    /\ UNCHANGED ixFrame
    /\ UNCHANGED dirVars

\* i.mu.Lock(), first half
IxLockAnnounce ==
    /\ \E t \in AllTasks :
           /\ tasks[t].pc = "lock"
           /\ CanLockAnnounce(imu)
           /\ imu' = LockAnnounce(imu, t)
           /\ tasks' = [tasks EXCEPT ![t].pc = "lockwait"]
    /\ UNCHANGED index
    /\ UNCHANGED ixFrame
    /\ UNCHANGED dirVars

\* i.mu.Lock(), second half
IxLockAcquire ==
    /\ \E t \in AllTasks :
           /\ tasks[t].pc = "lockwait"
           /\ CanLockAcquire(imu, t)
           /\ imu' = LockAcquire(imu, t)
           /\ tasks' = [tasks EXCEPT ![t].pc = "body", ![t].snap = index]
    /\ UNCHANGED index
    /\ UNCHANGED ixFrame
    /\ UNCHANGED dirVars

\* Get: note, exists := i.notes[slug]
IxGet ==
    /\ \E t \in AllTasks :
           /\ tasks[t].pc = "body"
           /\ tasks[t].call = "Get"
           /\ tasks' = [tasks EXCEPT ![t].pc = "release",
                                     ![t].res.exists = IndexGet(index, tasks[t].slug).exists,
                                     ![t].res.note = IndexGet(index, tasks[t].slug).note]
    /\ UNCHANGED <<index, imu>>
    /\ UNCHANGED ixFrame
    /\ UNCHANGED dirVars

\* Set: i.notes[slug] = header
IxSet ==
    /\ \E t \in AllTasks :
           /\ tasks[t].pc = "body"
           /\ tasks[t].call = "Set"
           /\ index' = IndexSet(index, tasks[t].slug, tasks[t].hdr)
           /\ tasks' = NoteWrite(t, tasks[t].slug,
                                 IndexSet(index, tasks[t].slug, tasks[t].hdr))
    /\ UNCHANGED imu
    /\ UNCHANGED ixFrame
    /\ UNCHANGED dirVars

\* Delete: delete(i.notes, slug)
IxDelete ==
    /\ \E t \in AllTasks :
           /\ tasks[t].pc = "body"
           /\ tasks[t].call = "Delete"
           /\ index' = IndexDelete(index, tasks[t].slug)
           /\ tasks' = NoteWrite(t, tasks[t].slug, IndexDelete(index, tasks[t].slug))
    /\ UNCHANGED imu
    /\ UNCHANGED ixFrame
    /\ UNCHANGED dirVars

\* Count: len(i.notes)
IxCount ==
    /\ \E t \in AllTasks :
           /\ tasks[t].pc = "body"
           /\ tasks[t].call = "Count"
           /\ tasks' = [tasks EXCEPT ![t].pc = "release",
                                     ![t].res.count = IndexCount(index)]
    /\ UNCHANGED <<index, imu>>
    /\ UNCHANGED ixFrame
    /\ UNCHANGED dirVars

\* All: one round of the range loop, over a key not yet visited
IxAllNext ==
    /\ \E t \in AllTasks :
           /\ tasks[t].pc = "body"
           /\ tasks[t].call = "All"
           /\ \E s \in DOMAIN index \ tasks[t].visited :
                  tasks' = [tasks EXCEPT ![t].res.all = Append(@, index[s]),
                                        ![t].visited = @ \cup {s}]
    /\ UNCHANGED <<index, imu>>
    /\ UNCHANGED ixFrame
    /\ UNCHANGED dirVars

\* All: the range loop ends
IxAllEnd ==
    /\ \E t \in AllTasks :
           /\ tasks[t].pc = "body"
           /\ tasks[t].call = "All"
           /\ DOMAIN index \subseteq tasks[t].visited
           /\ tasks' = [tasks EXCEPT ![t].pc = "release"]
    /\ UNCHANGED <<index, imu>>
    /\ UNCHANGED ixFrame
    /\ UNCHANGED dirVars

\* defer i.mu.RUnlock()
IxRUnlock ==
    /\ \E t \in AllTasks :
           /\ tasks[t].pc = "release"
           /\ LockMode(tasks[t].call) = "rlock"
           /\ imu' = RUnlock(imu, t)
           /\ tasks' = [tasks EXCEPT ![t] = Returned(tasks[t])]
    /\ UNCHANGED index
    /\ UNCHANGED ixFrame
    /\ UNCHANGED dirVars

\* defer i.mu.Unlock()
IxUnlock ==
    /\ \E t \in AllTasks :
           /\ tasks[t].pc = "release"
           /\ LockMode(tasks[t].call) = "lock"
           /\ imu' = Unlock(imu, t)
           /\ tasks' = [tasks EXCEPT ![t] = Returned(tasks[t])]
    /\ UNCHANGED index
    /\ UNCHANGED ixFrame
    /\ UNCHANGED dirVars

(***************************************************************************)
(* Tasks that call the methods of one Index concurrently (as the thread    *)
(* safety test does), starting from NewIndex().                            *)
(***************************************************************************)

IxSlugs == {SlugT(N_a2), SlugT(N_b)}

IxHeaders == {Header(N_a1, K_meta), Header(N_a2, K_plain), Header(N_b, K_meta)}

InitIndex ==
    /\ fs = [n \in Names |-> Absent]
    /\ dirOK = TRUE
    /\ nchanges = 0
    /\ index = EmptyIndex
    /\ events = <<>>
    /\ watching = FALSE
    /\ shutdown = "none"
    /\ main = [RebuildCall(EmptyIndex, FALSE) EXCEPT !.pc = "idle"]
    /\ w = [pc |-> "off", path |-> <<>>, ret |-> "off"]
    /\ consumed = <<>>
    /\ updated = <<>>
    /\ lastRead = [n \in Names |-> [seen |-> FALSE, content |-> <<>>]]
    /\ last = NoOp
    /\ quiet = FALSE
    /\ AppIdle

\* task t calls method call of the Index
Client(t, call, slug, hdr) ==
    /\ tasks' = [tasks EXCEPT ![t] =
                     [IndexCall(IdleTask, call, slug, hdr, "done") EXCEPT !.op = call]]
    /\ UNCHANGED <<index, imu>>
    /\ UNCHANGED ixFrame
    /\ UNCHANGED dirVars

ClientGet ==
    \E t \in Tasks, slug \in IxSlugs :
        /\ tasks[t].op = "idle"
        /\ Client(t, "Get", slug, NoHeader)

ClientSet ==
    \E t \in Tasks, hdr \in IxHeaders :
        /\ tasks[t].op = "idle"
        /\ Client(t, "Set", hdr.Slug, hdr)

ClientDelete ==
    \E t \in Tasks, slug \in IxSlugs :
        /\ tasks[t].op = "idle"
        /\ Client(t, "Delete", slug, NoHeader)

ClientCount ==
    \E t \in Tasks :
        /\ tasks[t].op = "idle"
        /\ Client(t, "Count", <<>>, NoHeader)

ClientAll ==
    \E t \in Tasks :
        /\ tasks[t].op = "idle"
        /\ Client(t, "All", <<>>, NoHeader)

\* the method has returned to its caller
ClientReturn ==
    /\ \E t \in Tasks :
           /\ tasks[t].pc = "done"
           /\ tasks' = [tasks EXCEPT ![t] = IdleTask]
    /\ UNCHANGED <<index, imu>>
    /\ UNCHANGED ixFrame
    /\ UNCHANGED dirVars

NextIndex ==
    \/ ClientGet
    \/ ClientSet
    \/ ClientDelete
    \/ ClientCount
    \/ ClientAll
    \/ ClientReturn
    \/ IxRLock
    \/ IxLockAnnounce
    \/ IxLockAcquire
    \/ IxGet
    \/ IxSet
    \/ IxDelete
    \/ IxCount
    \/ IxAllNext
    \/ IxAllEnd
    \/ IxRUnlock
    \/ IxUnlock

SpecIndex == InitIndex /\ [][NextIndex]_vars

(***************************************************************************)
(* The server at work: request handlers that may overlap, each its own     *)
(* task, and the watcher task, every lock taken and released as its own    *)
(* step.  The index was built from the notes directory, the watch is       *)
(* installed.  What the handlers reply is not recorded here.               *)

(***************************************************************************)

L_open == <<"\\", "r", "e", "f", "{", "a", "}", "\\", "u", "s", "e", "p", "a", "c", "k", "a", "g", "e", "{", "\\", "r", "e", "f", "{">>

\* the texts the editor sends: a reference, then a package span and a
\* reference span left open
ServeTexts == {<<L_open>>}

InitServe ==
    /\ fs \in {d \in InitFS : d[N_a2].kind = "file" /\ d[N_b].kind = "absent"}
    /\ dirOK = TRUE
    /\ nchanges = 0
    /\ index = BuiltIndex(fs)
    /\ events = <<>>
    /\ watching = TRUE
    /\ shutdown = "none"
    /\ main = [RebuildCall(EmptyIndex, FALSE) EXCEPT !.pc = "serving"]
    /\ w = [pc |-> "off", path |-> <<>>, ret |-> "off"]
    /\ consumed = <<>>
    /\ updated = <<>>
    /\ lastRead = [n \in Names |-> [seen |-> FALSE, content |-> <<>>]]
    /\ last = NoOp
    /\ quiet = FALSE
    /\ imu = FreeLock
    /\ smu = FreeLock
    /\ documents = NoDocuments
    /\ tasks = [t \in AllTasks |->
                   IF t = Watcher THEN [IdleTask EXCEPT !.op = "watch", !.pc = "select"]
                   ELSE IdleTask]
    /\ published = [u \in Uris |-> NoPublished]
    /\ reply = NoReply

\* t is the idle task that takes the next request: the first one
FirstIdle(t) ==
    /\ tasks[t].op = "idle"
    /\ \A u \in Tasks : u < t => tasks[u].op # "idle"

\* a request of a document and a position arrives at idle task t
Request(t, op, uri, text, character, pc) ==
    tasks' = [tasks EXCEPT ![t] =
                 [IdleTask EXCEPT !.op = op, !.uri = uri, !.text = text,
                                  !.character = character,
                                  !.todo = DiagLookups(text),
                                  !.pc = pc]]

\* the characters asked about, on line 0: in the argument of the reference,
\* and at the end of the line
ServeChars == {Len(L_ref) - 1, Len(L_open)}

\* the names the watcher receives events of
ServeEvents == {N_a2, N_b, N_txt}

serveFrame == <<index, published, reply>>

ReqDidOpen ==
    /\ \E t \in Tasks, uri \in Uris, text \in ServeTexts :
           /\ FirstIdle(t)
           /\ Request(t, "DidOpen", uri, text, 0,
                      IF IsManaged(uri) THEN "s_lock" ELSE "done")
    /\ UNCHANGED <<imu, smu, documents>>
    /\ UNCHANGED serveFrame
    /\ UNCHANGED dirVars

ReqDidChange ==
    /\ \E t \in Tasks, uri \in Uris,
          changes \in {<<>>} \cup {<<text>> : text \in ServeTexts} :
           /\ FirstIdle(t)
           /\ Request(t, "DidChange", uri,
                      IF Len(changes) = 0 THEN <<>> ELSE changes[1], 0,
                      IF IsManaged(uri) /\ Len(changes) # 0 THEN "s_lock" ELSE "done")
    /\ UNCHANGED <<imu, smu, documents>>
    /\ UNCHANGED serveFrame
    /\ UNCHANGED dirVars

ReqDidClose ==
    /\ \E t \in Tasks, uri \in Uris :
           /\ FirstIdle(t)
           /\ Request(t, "DidClose", uri, <<>>, 0, "s_lock")
    /\ UNCHANGED <<imu, smu, documents>>
    /\ UNCHANGED serveFrame
    /\ UNCHANGED dirVars

ReqCompletion ==
    /\ \E t \in Tasks, uri \in Uris, c \in ServeChars :
           /\ FirstIdle(t)
           /\ Request(t, "Completion", uri, <<>>, c,
                      IF IsManaged(uri) THEN "g_rlock" ELSE "done")
    /\ UNCHANGED <<imu, smu, documents>>
    /\ UNCHANGED serveFrame
    /\ UNCHANGED dirVars

ReqDefinition ==
    /\ \E t \in Tasks, uri \in Uris, c \in ServeChars :
           /\ FirstIdle(t)
           /\ Request(t, "Definition", uri, <<>>, c,
                      IF IsManaged(uri) THEN "g_rlock" ELSE "done")
    /\ UNCHANGED <<imu, smu, documents>>
    /\ UNCHANGED serveFrame
    /\ UNCHANGED dirVars

ReqHover ==
    /\ \E t \in Tasks, uri \in Uris, c \in ServeChars :
           /\ FirstIdle(t)
           /\ Request(t, "Hover", uri, <<>>, c,
                      IF IsManaged(uri) THEN "g_rlock" ELSE "done")
    /\ UNCHANGED <<imu, smu, documents>>
    /\ UNCHANGED serveFrame
    /\ UNCHANGED dirVars

ReqRename ==
    /\ \E t \in Tasks, uri \in Uris, c \in ServeChars :
           /\ FirstIdle(t)
           /\ Request(t, "Rename", uri, <<>>, c,
                      IF IsManaged(uri) THEN "g_rlock" ELSE "done")
    /\ UNCHANGED <<imu, smu, documents>>
    /\ UNCHANGED serveFrame
    /\ UNCHANGED dirVars

\* the handler has returned
HReturn ==
    /\ \E t \in Tasks :
           /\ tasks[t].pc = "done"
           /\ tasks[t].op # "idle"
           /\ tasks' = [tasks EXCEPT ![t] = IdleTask]
    /\ UNCHANGED <<imu, smu, documents>>
    /\ UNCHANGED serveFrame
    /\ UNCHANGED dirVars

\* s.mu.Lock() of DidOpen, DidChange and DidClose, first half
SLockAnnounce ==
    /\ \E t \in Tasks :
           /\ tasks[t].pc = "s_lock"
           /\ CanLockAnnounce(smu)
           /\ smu' = LockAnnounce(smu, t)
           /\ tasks' = [tasks EXCEPT ![t].pc = "s_lockwait"]
    /\ UNCHANGED <<imu, documents>>
    /\ UNCHANGED serveFrame
    /\ UNCHANGED dirVars

\* s.mu.Lock(), second half
SLockAcquire ==
    /\ \E t \in Tasks :
           /\ tasks[t].pc = "s_lockwait"
           /\ CanLockAcquire(smu, t)
           /\ smu' = LockAcquire(smu, t)
           /\ tasks' = [tasks EXCEPT ![t].pc = "store"]
    /\ UNCHANGED <<imu, documents>>
    /\ UNCHANGED serveFrame
    /\ UNCHANGED dirVars

StoredNextKeepLock(op) == IF op = "DidClose" THEN "s_unlock" ELSE "diag"

\* where a handler goes once it has written s.documents: to s.mu.Unlock()
StoredNext(op) == "s_unlock"

\* DidOpen, DidChange: s.documents[uri] = text
Store ==
    /\ \E t \in Tasks :
           /\ tasks[t].pc = "store"
           /\ tasks[t].op \in {"DidOpen", "DidChange"}
           /\ documents' = [u \in DOMAIN documents \cup {tasks[t].uri} |->
                               IF u = tasks[t].uri THEN tasks[t].text ELSE documents[u]]
           /\ tasks' = [tasks EXCEPT ![t].pc = StoredNext(tasks[t].op)]
    /\ UNCHANGED <<imu, smu>>
    /\ UNCHANGED serveFrame
    /\ UNCHANGED dirVars

\* DidClose: delete(s.documents, uri)
Remove ==
    /\ \E t \in Tasks :
           /\ tasks[t].pc = "store"
           /\ tasks[t].op = "DidClose"
           /\ documents' = [u \in DOMAIN documents \ {tasks[t].uri} |-> documents[u]]
           /\ tasks' = [tasks EXCEPT ![t].pc = StoredNext(tasks[t].op)]
    /\ UNCHANGED <<imu, smu>>
    /\ UNCHANGED serveFrame
    /\ UNCHANGED dirVars

\* s.mu.Unlock(); DidClose returns, DidOpen and DidChange go on to
\* publishDiagnostics
SUnlock ==
    /\ \E t \in Tasks :
           /\ tasks[t].pc = "s_unlock"
           /\ smu' = Unlock(smu, t)
           /\ tasks' = [tasks EXCEPT ![t].pc =
                            IF tasks[t].op = "DidClose" THEN "done" ELSE "diag"]
    /\ UNCHANGED <<imu, documents>>
    /\ UNCHANGED serveFrame
    /\ UNCHANGED dirVars

\* analyzeDiagnostics: the next reference is looked up with s.index.Get
DiagNext ==
    /\ \E t \in Tasks :
           /\ tasks[t].pc = "diag"
           /\ tasks[t].todo # <<>>
           /\ tasks' = [tasks EXCEPT ![t] =
                            IndexCall([tasks[t] EXCEPT !.todo = Tail(@)], "Get",
                                      Head(tasks[t].todo), NoHeader, "diag")]
    /\ UNCHANGED <<imu, smu, documents>>
    /\ UNCHANGED serveFrame
    /\ UNCHANGED dirVars

\* analyzeDiagnostics returns
DiagEnd ==
    /\ \E t \in Tasks :
           /\ tasks[t].pc = "diag"
           /\ tasks[t].todo = <<>>
           /\ tasks' = [tasks EXCEPT ![t].pc = "notify"]
    /\ UNCHANGED <<imu, smu, documents>>
    /\ UNCHANGED serveFrame
    /\ UNCHANGED dirVars

\* publishDiagnostics: s.conn.Notify sends the diagnostics
NotifySend ==
    /\ \E t \in Tasks :
           /\ tasks[t].pc = "notify"
           /\ tasks' = [tasks EXCEPT ![t].pc = "done"]
    /\ UNCHANGED <<imu, smu, documents>>
    /\ UNCHANGED serveFrame
    /\ UNCHANGED dirVars

\* GetDocument: s.mu.RLock()
GRLock ==
    /\ \E t \in Tasks :
           /\ tasks[t].pc = "g_rlock"
           /\ CanRLock(smu)
           /\ smu' = RLock(smu, t)
           /\ tasks' = [tasks EXCEPT ![t].pc = "g_read"]
    /\ UNCHANGED <<imu, documents>>
    /\ UNCHANGED serveFrame
    /\ UNCHANGED dirVars

\* GetDocument: the buffered text of the uri is looked up
GRead ==
    /\ \E t \in Tasks :
           /\ tasks[t].pc = "g_read"
           /\ tasks' = IF tasks[t].uri \in DOMAIN documents
                       THEN [tasks EXCEPT ![t].pc = "g_hit",
                                          ![t].content = documents[tasks[t].uri]]
                       ELSE [tasks EXCEPT ![t].pc = "g_miss"]
    /\ UNCHANGED <<imu, smu, documents>>
    /\ UNCHANGED serveFrame
    /\ UNCHANGED dirVars

\* GetDocument: s.mu.RUnlock()
GRUnlock ==
    /\ \E t \in Tasks :
           /\ tasks[t].pc \in {"g_hit", "g_miss"}
           /\ smu' = RUnlock(smu, t)
           /\ tasks' = [tasks EXCEPT ![t].pc =
                            IF tasks[t].pc = "g_hit" THEN "have" ELSE "g_file"]
    /\ UNCHANGED <<imu, documents>>
    /\ UNCHANGED serveFrame
    /\ UNCHANGED dirVars

\* GetDocument: no buffer, the file is read; on an error every handler returns
GReadFile ==
    /\ \E t \in Tasks :
           /\ tasks[t].pc = "g_file"
           /\ \E rd \in {ReadFile(fs, uriToPath(tasks[t].uri))} :
                  tasks' = IF rd.err THEN [tasks EXCEPT ![t].pc = "done"]
                           ELSE [tasks EXCEPT ![t].pc = "have",
                                              ![t].content = rd.content]
    /\ UNCHANGED <<imu, smu, documents>>
    /\ UNCHANGED serveFrame
    /\ UNCHANGED dirVars

\* the text before the cursor of a Completion request, <<>> past the text
LinePrefix(task) ==
    IF task.line >= Len(task.content) THEN <<>>
    ELSE IF task.character > Len(task.content[task.line + 1]) THEN <<>>
    ELSE SubSeq(task.content[task.line + 1], 1, task.character)

\* the position of a Completion request lies in the text
InText(task) ==
    /\ task.line < Len(task.content)
    /\ task.character <= Len(task.content[task.line + 1])

\* Completion: inside an open \ref{ the candidates come from s.index.All()
CompletionRef ==
    /\ \E t \in Tasks :
           /\ tasks[t].pc = "have"
           /\ tasks[t].op = "Completion"
           /\ tasks' = [tasks EXCEPT ![t] =
                            IF ~InText(tasks[t]) THEN [tasks[t] EXCEPT !.pc = "done"]
                            ELSE IF OpenArg(LinePrefix(tasks[t]), Kw_ref).ok
                            THEN IndexCall(tasks[t], "All", <<>>, NoHeader, "c_pkg")
                            ELSE [tasks[t] EXCEPT !.pc = "c_pkg"]]
    /\ UNCHANGED <<imu, smu, documents>>
    /\ UNCHANGED serveFrame
    /\ UNCHANGED dirVars

\* Completion: inside an open \usepackage{ the templates directory is listed
CompletionPkg ==
    /\ \E t \in Tasks :
           /\ tasks[t].pc = "c_pkg"
           /\ tasks' = [tasks EXCEPT ![t].pc =
                            IF OpenArg(LinePrefix(tasks[t]), Kw_usepackage).ok
                            THEN "c_readdir" ELSE "done"]
    /\ UNCHANGED <<imu, smu, documents>>
    /\ UNCHANGED serveFrame
    /\ UNCHANGED dirVars

\* listTemplates: os.ReadDir(s.vault.TemplatesPath)
CompletionReadDir ==
    /\ \E t \in Tasks :
           /\ tasks[t].pc = "c_readdir"
           /\ tasks' = [tasks EXCEPT ![t].pc = "done"]
    /\ UNCHANGED <<imu, smu, documents>>
    /\ UNCHANGED serveFrame
    /\ UNCHANGED dirVars

\* what Definition, Hover and Rename do with the slug under the position:
\* return when there is none
SlugOf(task) == getSlugAtPosition(task.content, task.line, task.character)

\* Definition: s.index.Get(slug) of the slug under the position
DefinitionGet ==
    /\ \E t \in Tasks :
           /\ tasks[t].pc = "have"
           /\ tasks[t].op = "Definition"
           /\ tasks' = [tasks EXCEPT ![t] =
                            IF SlugOf(tasks[t]) = <<>> THEN [tasks[t] EXCEPT !.pc = "done"]
                            ELSE IndexCall(tasks[t], "Get", SlugOf(tasks[t]),
                                           NoHeader, "done")]
    /\ UNCHANGED <<imu, smu, documents>>
    /\ UNCHANGED serveFrame
    /\ UNCHANGED dirVars

\* Hover: s.index.Get(slug) of the slug under the position
HoverGet ==
    /\ \E t \in Tasks :
           /\ tasks[t].pc = "have"
           /\ tasks[t].op = "Hover"
           /\ tasks' = [tasks EXCEPT ![t] =
                            IF SlugOf(tasks[t]) = <<>> THEN [tasks[t] EXCEPT !.pc = "done"]
                            ELSE IndexCall(tasks[t], "Get", SlugOf(tasks[t]),
                                           NoHeader, "done")]
    /\ UNCHANGED <<imu, smu, documents>>
    /\ UNCHANGED serveFrame
    /\ UNCHANGED dirVars

\* Rename: the slug under the position, or an error
RenameSlug ==
    /\ \E t \in Tasks :
           /\ tasks[t].pc = "have"
           /\ tasks[t].op = "Rename"
           /\ tasks' = [tasks EXCEPT ![t].pc =
                            IF SlugOf(tasks[t]) = <<>> THEN "done" ELSE "exec"]
    /\ UNCHANGED <<imu, smu, documents>>
    /\ UNCHANGED serveFrame
    /\ UNCHANGED dirVars

\* Rename: exec.Command("lx", "rename", ..).CombinedOutput()
RenameExec ==
    /\ \E t \in Tasks :
           /\ tasks[t].pc = "exec"
           /\ tasks' = [tasks EXCEPT ![t].pc = "done"]
    /\ UNCHANGED <<imu, smu, documents>>
    /\ UNCHANGED serveFrame
    /\ UNCHANGED dirVars

\* handleFileEvents: an event of the watched directory is received; only a
\* .tex path is updated
SRecv ==
    /\ tasks[Watcher].pc = "select"
    /\ \E n \in ServeEvents :
           tasks' = IF IsNoteEvent(GetNotePath(n))
                    THEN [tasks EXCEPT ![Watcher].pc = "stat",
                                       ![Watcher].path = GetNotePath(n)]
                    ELSE tasks
    /\ UNCHANGED <<imu, smu, documents>>
    /\ UNCHANGED serveFrame
    /\ UNCHANGED dirVars

\* updateIndexForFile: os.Stat; s.index.Delete when the path does not exist
SStat ==
    /\ tasks[Watcher].pc = "stat"
    /\ tasks' = [tasks EXCEPT ![Watcher] =
                     IF StatNotExist(fs, tasks[Watcher].path)
                     THEN IndexCall(tasks[Watcher], "Delete",
                                    SlugT(BaseT(tasks[Watcher].path)), NoHeader, "select")
                     ELSE [tasks[Watcher] EXCEPT !.pc = "parse"]]
    /\ UNCHANGED <<imu, smu, documents>>
    /\ UNCHANGED serveFrame
    /\ UNCHANGED dirVars

\* updateIndexForFile: parseNoteHeader; s.index.Set when it gave a header
SParse ==
    /\ tasks[Watcher].pc = "parse"
    /\ \E r \in {parseNoteHeader(fs, BaseT(tasks[Watcher].path))} :
           tasks' = [tasks EXCEPT ![Watcher] =
                        IF r.err THEN [tasks[Watcher] EXCEPT !.pc = "select", !.path = <<>>]
                        ELSE IndexCall(tasks[Watcher], "Set", r.header.Slug,
                                       r.header, "select")]
    /\ UNCHANGED <<imu, smu, documents>>
    /\ UNCHANGED serveFrame
    /\ UNCHANGED dirVars

NextServe ==
    \/ ReqDidOpen
    \/ ReqDidChange
    \/ ReqDidClose
    \/ ReqCompletion
    \/ ReqDefinition
    \/ ReqHover
    \/ ReqRename
    \/ HReturn
    \/ SLockAnnounce
    \/ SLockAcquire
    \/ Store
    \/ Remove
    \/ SUnlock
    \/ DiagNext
    \/ DiagEnd
    \/ NotifySend
    \/ GRLock
    \/ GRead
    \/ GRUnlock
    \/ GReadFile
    \/ CompletionRef
    \/ CompletionPkg
    \/ CompletionReadDir
    \/ DefinitionGet
    \/ HoverGet
    \/ RenameSlug
    \/ RenameExec
    \/ SRecv
    \/ SStat
    \/ SParse
    \/ IxRLock
    \/ IxLockAnnounce
    \/ IxLockAcquire
    \/ IxGet
    \/ IxSet
    \/ IxDelete
    \/ IxAllNext
    \/ IxAllEnd
    \/ IxRUnlock
    \/ IxUnlock

SpecServe == InitServe /\ [][NextServe]_vars

(***************************************************************************)
(* Run from conn.Go on, with DidOpen and DidChange handled while it goes:  *)
(* the handlers run in the connection's task, which conn.Go starts before  *)
(* Run assigns s.conn, builds the index and starts the watcher.  Index     *)
(* methods and the document store are single steps here.                   *)
(***************************************************************************)

\* the diagnostics analyzeDiagnostics appends for one line, seen[k] being
\* what s.index.Get answered for the k-th reference of the line
LineDiagnosticsSeen(line, lineNum, seen) ==
    IF HasPrefix(TrimSpace(line), <<"%">>) THEN <<>>
    ELSE LET all == FindAll(line, DiagKinds)
             asked == [k \in DOMAIN all |-> [m |-> all[k], exists |-> seen[k]]]
             refs == SelectSeq(asked, LAMBDA a : ~a.exists)
             todos == FindAll(line, TodoKinds)
         IN  [k \in DOMAIN refs |->
                 [line |-> lineNum, start |-> refs[k].m.s, end |-> refs[k].m.e,
                  severity |-> "error", message |-> "Note '%s' not found",
                  arg |-> NormalizeDiagSlug(SubSeq(line, refs[k].m.s + 1, refs[k].m.e))]]
             \o
             [k \in DOMAIN todos |->
                 [line |-> lineNum, start |-> todos[k].s0, end |-> todos[k].e0,
                  severity |-> "warning", message |-> "TODO: %s",
                  arg |-> SubSeq(line, todos[k].s + 1, todos[k].e)]]

\* the number of s.index.Get calls analyzeDiagnostics makes for a line
LineLookups(line) ==
    IF HasPrefix(TrimSpace(line), <<"%">>) THEN 0 ELSE Len(FindAll(line, DiagKinds))

\* analyzeDiagnostics(content) from line lineNum on, looked being the answers
\* of its s.index.Get calls in order
RECURSIVE DiagnosticsSeenFrom(_, _, _)
DiagnosticsSeenFrom(content, lineNum, looked) ==
    IF lineNum >= Len(content) THEN <<>>
    ELSE LET n == LineLookups(content[lineNum + 1])
         IN  LineDiagnosticsSeen(content[lineNum + 1], lineNum, SubSeq(looked, 1, n))
             \o DiagnosticsSeenFrom(content, lineNum + 1, SubSeq(looked, n + 1, Len(looked)))

DiagnosticsSeen(content, looked) == DiagnosticsSeenFrom(content, 0, looked)

\* the texts of the notifications
PubTexts == {<<L_ref>>, T_two}

InitPublish ==
    /\ fs \in {d \in InitFS : d[N_a2].kind = "file" /\ d[N_b].kind = "absent"}
    /\ dirOK = TRUE
    /\ nchanges = 0
    /\ index = EmptyIndex
    /\ events = <<>>
    /\ watching = FALSE
    /\ shutdown = "none"
    /\ main = [RebuildCall(EmptyIndex, FALSE) EXCEPT !.pc = "setconn"]
    /\ w = [pc |-> "off", path |-> <<>>, ret |-> "off"]
    /\ consumed = <<>>
    /\ updated = <<>>
    /\ lastRead = [n \in Names |-> [seen |-> FALSE, content |-> <<>>]]
    /\ last = NoOp
    /\ quiet = TRUE
    /\ AppIdle

\* a handler has panicked: the process is gone
Crashed == \E t \in Tasks : tasks[t].pc = "panic"

pubFrame == <<index, imu, smu>>

\* Run: s.conn = conn, after conn.Go has started the connection's task
RunSetConn ==
    /\ ~Crashed
    /\ main.pc = "setconn"
    /\ main' = [main EXCEPT !.pc = "readdir"]
    /\ UNCHANGED <<index, w, consumed, updated, lastRead, last, quiet, watching>>
    /\ UNCHANGED envVars
    /\ UNCHANGED appVars

PubDidOpen ==
    /\ ~Crashed
    /\ \E t \in Tasks, uri \in Uris, text \in PubTexts :
           \* the connection's task calls the handlers one after the other
           /\ \A u \in Tasks : tasks[u].op = "idle"
           /\ FirstIdle(t)
           /\ Request(t, "DidOpen", uri, text, 0,
                      IF IsManaged(uri) THEN "store" ELSE "done")
    /\ UNCHANGED <<documents, published, reply>>
    /\ UNCHANGED pubFrame
    /\ UNCHANGED dirVars

PubDidChange ==
    /\ ~Crashed
    /\ \E t \in Tasks, uri \in Uris,
          changes \in {<<>>} \cup {<<text>> : text \in PubTexts} :
           \* the connection's task calls the handlers one after the other
           /\ \A u \in Tasks : tasks[u].op = "idle"
           /\ FirstIdle(t)
           /\ Request(t, "DidChange", uri,
                      IF Len(changes) = 0 THEN <<>> ELSE changes[1], 0,
                      IF IsManaged(uri) /\ Len(changes) # 0 THEN "store" ELSE "done")
    /\ UNCHANGED <<documents, published, reply>>
    /\ UNCHANGED pubFrame
    /\ UNCHANGED dirVars

\* DidOpen, DidChange: the text is stored under s.mu
PubStore ==
    /\ ~Crashed
    /\ \E t \in Tasks :
           /\ tasks[t].pc = "store"
           /\ documents' = [u \in DOMAIN documents \cup {tasks[t].uri} |->
                               IF u = tasks[t].uri THEN tasks[t].text ELSE documents[u]]
           /\ tasks' = [tasks EXCEPT ![t].pc = "diag"]
    /\ UNCHANGED <<published, reply>>
    /\ UNCHANGED pubFrame
    /\ UNCHANGED dirVars

\* analyzeDiagnostics: s.index.Get of the next reference
PubLookup ==
    /\ ~Crashed
    /\ \E t \in Tasks :
           /\ tasks[t].pc = "diag"
           /\ tasks[t].todo # <<>>
           /\ tasks' = [tasks EXCEPT
                           ![t].todo = Tail(@),
                           ![t].looked = Append(@, IndexGet(index, Head(tasks[t].todo)).exists)]
    /\ UNCHANGED <<documents, published, reply>>
    /\ UNCHANGED pubFrame
    /\ UNCHANGED dirVars

\* publishDiagnostics: s.conn.Notify.  s.conn is read without synchronisation
\* with its assignment in Run: the read comes before the assignment (nil, the
\* call panics) or after it, as the steps interleave
PubNotify ==
    /\ ~Crashed
    /\ \E t \in Tasks :
           /\ tasks[t].pc = "diag"
           /\ tasks[t].todo = <<>>
           /\ IF main.pc = "setconn"
              THEN /\ tasks' = [tasks EXCEPT ![t].pc = "panic"]
                   /\ UNCHANGED published
              ELSE /\ tasks' = [tasks EXCEPT ![t].pc = "done",
                                             ![t].pubs = @ + 1]
                   /\ published' = [published EXCEPT ![tasks[t].uri] =
                                       [valid |-> TRUE, content |-> tasks[t].text,
                                        diags |-> DiagnosticsSeen(tasks[t].text,
                                                                  tasks[t].looked)]]
    /\ UNCHANGED <<documents, reply>>
    /\ UNCHANGED pubFrame
    /\ UNCHANGED dirVars

\* the handler returns
PubReturn ==
    /\ ~Crashed
    /\ \E t \in Tasks :
           /\ tasks[t].pc = "done"
           /\ tasks[t].op # "idle"
           /\ tasks' = [tasks EXCEPT ![t] = IdleTask]
    /\ UNCHANGED <<documents, published, reply>>
    /\ UNCHANGED pubFrame
    /\ UNCHANGED dirVars

PubEnvWriteFile == ~Crashed /\ EnvWriteFile
PubEnvRemove == ~Crashed /\ EnvRemove
PubRebuildReadDir == ~Crashed /\ RebuildReadDir
PubRebuildParse == ~Crashed /\ RebuildParse
PubRebuildApply == ~Crashed /\ RebuildApply
PubRunWatch == ~Crashed /\ RunWatch
PubWRecv == ~Crashed /\ WRecv
PubWStat == ~Crashed /\ WStat
PubWParse == ~Crashed /\ WParse

NextPublish ==
    \/ RunSetConn
    \/ PubDidOpen
    \/ PubDidChange
    \/ PubStore
    \/ PubLookup
    \/ PubNotify
    \/ PubReturn
    \/ PubEnvWriteFile
    \/ PubEnvRemove
    \/ PubRebuildReadDir
    \/ PubRebuildParse
    \/ PubRebuildApply
    \/ PubRunWatch
    \/ PubWRecv
    \/ PubWStat
    \/ PubWParse

SpecPublish == InitPublish /\ [][NextPublish]_vars

(***************************************************************************)
(* Parser.Parse in its two modes, on file contents given as their lines.   *)
(***************************************************************************)

DigitSeq == <<"0", "1", "2", "3", "4", "5", "6", "7", "8", "9">>

DigitValue(c) == (CHOOSE i \in DOMAIN DigitSeq : DigitSeq[i] = c) - 1

\* the number a string of digits denotes
RECURSIVE Atoi(_)
Atoi(s) ==
    IF s = <<>> THEN 0
    ELSE 10 * Atoi(SubSeq(s, 1, Len(s) - 1)) + DigitValue(s[Len(s)])

IsLeap(y) == (y % 4 = 0 /\ y % 100 # 0) \/ y % 400 = 0

DaysIn(m, y) ==
    IF m = 2 THEN (IF IsLeap(y) THEN 29 ELSE 28)
    ELSE IF m \in {4, 6, 9, 11} THEN 30 ELSE 31

\* validateDate as a check of the form dddd-dd-dd only
validateDateFormOnly(date) ==
    \/ date = <<>>
    \/ /\ Len(date) = 10
       /\ \A i \in {1, 2, 3, 4, 6, 7, 9, 10} : date[i] \in Digits
       /\ date[5] = "-"
       /\ date[8] = "-"

\* validateDate: TRUE when it returns nil; time.Parse with layout 2006-01-02
\* wants four digits, two digits and two digits that name a day of the calendar
validateDate(date) ==
    \/ date = <<>>
    \/ /\ Len(date) = 10
       /\ \A i \in {1, 2, 3, 4, 6, 7, 9, 10} : date[i] \in Digits
       /\ date[5] = "-"
       /\ date[8] = "-"
       /\ LET y == Atoi(SubSeq(date, 1, 4))
              m == Atoi(SubSeq(date, 6, 7))
              d == Atoi(SubSeq(date, 9, 10))
          IN  m \in 1..12 /\ d \in 1..DaysIn(m, y)

\* validateMetadata: TRUE when it returns nil
validateMetadata(m) == m.Title # <<>>

ParseError(line, field, message, arg) ==
    [Line |-> line, Field |-> field, Message |-> message, Arg |-> arg]

Warning(line, message, arg) == [Line |-> line, Message |-> message, Arg |-> arg]

\* the ParseResult Parse starts from
EmptyResult == [Metadata |-> EmptyMetadata, Errors |-> <<>>, Warnings |-> <<>>]

\* parseMetadataLine as a strict parser whose invalid date returns nil
parseMetadataLineDateNil(line, lineNum, strict, result) ==
    LET mt == MatchField(StripPercent(TrimSpace(line)))
        field == ToLower(TrimSpace(mt.field))
        value == TrimSpace(mt.value)
        m == result.Metadata
    IN  IF ~mt.ok
        THEN [err |-> FALSE,
              result |-> [result EXCEPT !.Warnings =
                             Append(@, Warning(lineNum, "invalid metadata line format: %s", line))]]
        ELSE IF field = Kw_title
        THEN IF m.Title # <<>>
             THEN [err |-> FALSE,
                   result |-> [result EXCEPT !.Warnings =
                                  Append(@, Warning(lineNum, "duplicate title field, using first occurrence", <<>>))]]
             ELSE IF value = <<>>
             THEN [err |-> TRUE,
                   result |-> [result EXCEPT !.Errors =
                                  Append(@, ParseError(lineNum, "title", "title cannot be empty", <<>>))]]
             ELSE [err |-> FALSE, result |-> [result EXCEPT !.Metadata.Title = value]]
        ELSE IF field = Kw_date
        THEN IF m.Date # <<>>
             THEN [err |-> FALSE,
                   result |-> [result EXCEPT !.Warnings =
                                  Append(@, Warning(lineNum, "duplicate date field, using first occurrence", <<>>))]]
             ELSE IF ~validateDate(value)
             THEN [err |-> FALSE,
                   result |-> [result EXCEPT
                                  !.Errors = Append(@, ParseError(lineNum, "date",
                                                 "invalid date format (expected YYYY-MM-DD): %s", value)),
                                  !.Metadata.Date = value]]
             ELSE [err |-> FALSE, result |-> [result EXCEPT !.Metadata.Date = value]]
        ELSE IF field = Kw_tags
        THEN LET warned == IF Len(m.Tags) > 0
                           THEN [result EXCEPT !.Warnings =
                                    Append(@, Warning(lineNum, "duplicate tags field, merging values", <<>>))]
                           ELSE result
             IN  [err |-> FALSE,
                  result |-> IF value # <<>>
                             THEN [warned EXCEPT !.Metadata.Tags =
                                      @ \o TrimmedNonEmpty(Split(value, ","))]
                             ELSE warned]
        ELSE [err |-> FALSE,
              result |-> [result EXCEPT !.Warnings =
                             Append(@, Warning(lineNum, "unknown metadata field '%s', ignoring", field))]]

\* parseMetadataLine(line, lineNum, result) of a parser in the given mode:
\* [err, result], err telling whether it returns an error
parseMetadataLineResult(line, lineNum, strict, result) ==
    LET mt == MatchField(StripPercent(TrimSpace(line)))
        field == ToLower(TrimSpace(mt.field))
        value == TrimSpace(mt.value)
        m == result.Metadata
    IN  IF ~mt.ok
        THEN [err |-> FALSE,
              result |-> [result EXCEPT !.Warnings =
                             Append(@, Warning(lineNum, "invalid metadata line format: %s", line))]]
        ELSE IF field = Kw_title
        THEN IF m.Title # <<>>
             THEN [err |-> FALSE,
                   result |-> [result EXCEPT !.Warnings =
                                  Append(@, Warning(lineNum, "duplicate title field, using first occurrence", <<>>))]]
             ELSE IF value = <<>>
             THEN [err |-> TRUE,
                   result |-> [result EXCEPT !.Errors =
                                  Append(@, ParseError(lineNum, "title", "title cannot be empty", <<>>))]]
             ELSE [err |-> FALSE, result |-> [result EXCEPT !.Metadata.Title = value]]
        ELSE IF field = Kw_date
        THEN IF m.Date # <<>>
             THEN [err |-> FALSE,
                   result |-> [result EXCEPT !.Warnings =
                                  Append(@, Warning(lineNum, "duplicate date field, using first occurrence", <<>>))]]
             ELSE IF ~validateDate(value)
             THEN [err |-> strict,
                   result |-> [result EXCEPT
                                  !.Errors = Append(@, ParseError(lineNum, "date",
                                                 "invalid date format (expected YYYY-MM-DD): %s", value)),
                                  !.Metadata.Date = value]]
             ELSE [err |-> FALSE, result |-> [result EXCEPT !.Metadata.Date = value]]
        ELSE IF field = Kw_tags
        THEN LET warned == IF Len(m.Tags) > 0
                           THEN [result EXCEPT !.Warnings =
                                    Append(@, Warning(lineNum, "duplicate tags field, merging values", <<>>))]
                           ELSE result
             IN  [err |-> FALSE,
                  result |-> IF value # <<>>
                             THEN [warned EXCEPT !.Metadata.Tags =
                                      @ \o TrimmedNonEmpty(Split(value, ","))]
                             ELSE warned]
        ELSE [err |-> FALSE,
              result |-> [result EXCEPT !.Warnings =
                             Append(@, Warning(lineNum, "unknown metadata field '%s', ignoring", field))]]

\* the scanner loop of Parse over the block's lines, lineNum the number of the
\* line before them: [err, result], err telling whether Parse returned from
\* inside the loop
RECURSIVE ScanLines(_, _, _, _)
ScanLines(lines, lineNum, strict, result) ==
    IF lines = <<>> THEN [err |-> FALSE, result |-> result]
    ELSE LET trimmed == TrimSpace(Head(lines))
         IN  IF trimmed = <<>> \/ HasPrefix(trimmed, Hdr2) \/ HasPrefix(trimmed, Hdr1)
             THEN ScanLines(Tail(lines), lineNum + 1, strict, result)
             ELSE LET r == parseMetadataLineResult(Head(lines), lineNum + 1, strict, result)
                  IN  IF r.err /\ strict THEN r
                      ELSE ScanLines(Tail(lines), lineNum + 1, strict, r.result)

\* Parser.Parse(content) with p.strict = strict: [err, result]
Parse(content, strict) ==
    LET b == extractMetadataBlock(content)
    IN  IF ~b.found
        THEN [err |-> strict,
              result |-> [EmptyResult EXCEPT !.Errors =
                             <<ParseError(0, "metadata", "no metadata block found", <<>>)>>]]
        ELSE LET scanned == ScanLines(b.lines, b.start, strict, EmptyResult)
                 r == scanned.result
             IN  IF scanned.err THEN scanned
                 ELSE IF ~validateMetadata(r.Metadata)
                 THEN LET v == [r EXCEPT !.Errors =
                                   Append(@, ParseError(0, "validation",
                                              "required field 'title' is missing", <<>>))]
                      IN  IF strict THEN [err |-> TRUE, result |-> v]
                          ELSE [err |-> FALSE,
                                result |-> [v EXCEPT !.Metadata = normalizeMetadata(@)]]
                 ELSE [err |-> FALSE,
                       result |-> [r EXCEPT !.Metadata = normalizeMetadata(@)]]

\* the most lines of a parsed content
MaxContentLines == 4

P_hdr == <<"%", "M", "e", "t", "a", "d", "a", "t", "a">>
P_title == <<"%", "t", "i", "t", "l", "e", ":", "T">>
P_notitle == <<"%", " ", "T", "i", "t", "l", "e", ":", " ">>
P_title2 == <<"%", "t", "i", "t", "l", "e", ":", "U">>
P_date == <<"%", "d", "a", "t", "e", ":", "2", "0", "2", "4", "-", "0", "2", "-", "2", "9">>
P_nodate == <<"%", "d", "a", "t", "e", ":">>
P_usdate == <<"%", "d", "a", "t", "e", ":", "0", "1", "/", "1", "5", "/", "2", "0", "2", "4">>
P_baddate == <<"%", "d", "a", "t", "e", ":", "2", "0", "2", "3", "-", "0", "2", "-", "2", "9">>
P_tags == <<"%", "t", "a", "g", "s", ":", "x", ",", "X">>
P_notags == <<"%", "t", "a", "g", "s", ":">>
P_tags2 == <<"%", "t", "a", "g", "s", ":", "y", ",", " ", "x">>
P_other == <<"%", "k", "e", "y", ":", "v">>
P_format == <<"%", "n", "o", "t", "e">>
P_text == <<"t", "e", "x", "t">>

ContentLines == {P_hdr, P_title, P_title2, P_notitle, P_date, P_nodate, P_usdate,
                 P_baddate, P_tags, P_notags, P_tags2, P_other, P_format, P_text}

ParsedContents == UNION {[1..n -> ContentLines] : n \in 0..MaxContentLines}

NoParse == [done |-> FALSE, err |-> FALSE, result |-> EmptyResult]

Parsed(r) == [done |-> TRUE, err |-> r.err, result |-> r.result]

InitParse ==
    /\ fs \in {[n \in Names |-> Absent]}
    /\ dirOK = TRUE
    /\ nchanges = 0
    /\ index = EmptyIndex
    /\ events = <<>>
    /\ watching = FALSE
    /\ shutdown = "none"
    /\ main = [RebuildCall(EmptyIndex, FALSE) EXCEPT !.pc = "idle"]
    /\ w = [pc |-> "off", path |-> <<>>, ret |-> "off"]
    /\ consumed = <<>>
    /\ updated = <<>>
    /\ lastRead = [n \in Names |-> [seen |-> FALSE, content |-> <<>>]]
    /\ last = NoOp
    /\ quiet = TRUE
    /\ imu = FreeLock
    /\ smu = FreeLock
    /\ documents = NoDocuments
    /\ tasks = [t \in AllTasks |-> IdleTask]
    /\ published = [u \in Uris |-> NoPublished]
    /\ \E content \in ParsedContents :
           reply = [content |-> content, strict |-> NoParse, lenient |-> NoParse]

parseFrame == <<index, imu, smu, documents, tasks, published>>

\* NewParser(true).Parse(content)
ParseStrict ==
    /\ ~reply.strict.done
    /\ reply' = [reply EXCEPT !.strict = Parsed(Parse(reply.content, TRUE))]
    /\ UNCHANGED parseFrame
    /\ UNCHANGED dirVars

\* NewParser(false).Parse(content)
ParseLenient ==
    /\ ~reply.lenient.done
    /\ reply' = [reply EXCEPT !.lenient = Parsed(Parse(reply.content, FALSE))]
    /\ UNCHANGED parseFrame
    /\ UNCHANGED dirVars

NextParse ==
    \/ ParseStrict
    \/ ParseLenient

SpecParse == InitParse /\ [][NextParse]_vars

(***************************************************************************)
(* Format, and the parse of what it writes.  A string is the sequence of   *)
(* its lines, as strings.Split(s, "\n") gives them: one that ends with a   *)
(* newline has an empty last line.                                         *)
(***************************************************************************)

F_header == <<"%", "%", " ", "M", "e", "t", "a", "d", "a", "t", "a">>
F_title == <<"%", "%", " ", "t", "i", "t", "l", "e", ":", " ">>
F_date == <<"%", "%", " ", "d", "a", "t", "e", ":", " ">>
F_tags == <<"%", "%", " ", "t", "a", "g", "s", ":", " ">>

\* Format with its tags joined by a space
FormatTagsSpaced(m, today) ==
    <<F_header,
      F_title \o m.Title,
      F_date \o (IF m.Date # <<>> THEN m.Date ELSE today),
      IF Len(m.Tags) > 0 THEN F_tags \o Join(m.Tags, <<" ">>) ELSE F_tags,
      <<>> >>

\* Format(m), today being time.Now().Format("2006-01-02")
Format(m, today) ==
    <<F_header,
      F_title \o m.Title,
      F_date \o (IF m.Date # <<>> THEN m.Date ELSE today),
      IF Len(m.Tags) > 0 THEN F_tags \o Join(m.Tags, <<",", " ">>) ELSE F_tags,
      <<>> >>

D_leap == <<"2", "0", "2", "4", "-", "0", "2", "-", "2", "9">>
D_noleap == <<"2", "0", "2", "3", "-", "0", "2", "-", "2", "9">>
D_newyear == <<"2", "0", "2", "4", "-", "0", "1", "-", "0", "1">>
D_today == <<"2", "0", "2", "4", "-", "1", "1", "-", "0", "4">>

\* the days Format can run on
Todays == {D_newyear, D_today}

HeaderTitles == {<<"T">>, <<"A", " ", "b">>, <<" ", "T">>}
HeaderDates == {<<>>, D_leap, D_noleap}
HeaderTags == {<<>>, << <<"x">> >>, << <<"x">>, <<"X">> >>, << <<"y">>, <<"x">> >>,
               << <<"a", ",", "b">> >>}

\* the headers handed to Format and Update
Headers == {[Title |-> t, Date |-> d, Tags |-> g] :
               t \in HeaderTitles, d \in HeaderDates, g \in HeaderTags}

InitFormat ==
    /\ fs \in {[n \in Names |-> Absent]}
    /\ dirOK = TRUE
    /\ nchanges = 0
    /\ index = EmptyIndex
    /\ events = <<>>
    /\ watching = FALSE
    /\ shutdown = "none"
    /\ main = [RebuildCall(EmptyIndex, FALSE) EXCEPT !.pc = "idle"]
    /\ w = [pc |-> "off", path |-> <<>>, ret |-> "off"]
    /\ consumed = <<>>
    /\ updated = <<>>
    /\ lastRead = [n \in Names |-> [seen |-> FALSE, content |-> <<>>]]
    /\ last = NoOp
    /\ quiet = TRUE
    /\ imu = FreeLock
    /\ smu = FreeLock
    /\ documents = NoDocuments
    /\ tasks = [t \in AllTasks |-> IdleTask]
    /\ published = [u \in Uris |-> NoPublished]
    /\ \E m \in Headers, today \in Todays :
           reply = [m |-> m, today |-> today, formatted |-> FALSE, text |-> <<>>,
                    strict |-> NoParse, lenient |-> NoParse]

\* Format(m)
DoFormat ==
    /\ ~reply.formatted
    /\ reply' = [reply EXCEPT !.formatted = TRUE, !.text = Format(reply.m, reply.today)]
    /\ UNCHANGED parseFrame
    /\ UNCHANGED dirVars

\* NewParser(true).Parse of the formatted text
ReparseStrict ==
    /\ reply.formatted
    /\ ~reply.strict.done
    /\ reply' = [reply EXCEPT !.strict = Parsed(Parse(reply.text, TRUE))]
    /\ UNCHANGED parseFrame
    /\ UNCHANGED dirVars

\* NewParser(false).Parse of the formatted text
ReparseLenient ==
    /\ reply.formatted
    /\ ~reply.lenient.done
    /\ reply' = [reply EXCEPT !.lenient = Parsed(Parse(reply.text, FALSE))]
    /\ UNCHANGED parseFrame
    /\ UNCHANGED dirVars

NextFormat ==
    \/ DoFormat
    \/ ReparseStrict
    \/ ReparseLenient

SpecFormat == InitFormat /\ [][NextFormat]_vars

(***************************************************************************)
(* Update, on contents given as their lines.                               *)
(***************************************************************************)

\* Update's loop "Find end of metadata block" from line i (0-based) on: the
\* value of blockEnd after it
RECURSIVE FindBlockEnd(_, _, _, _)
FindBlockEnd(lines, i, inBlock, blockEnd) ==
    IF i >= Len(lines) THEN blockEnd
    ELSE LET trimmed == TrimSpace(lines[i + 1])
         IN  IF HasPrefix(trimmed, Hdr2) \/ HasPrefix(trimmed, Hdr1)
             THEN FindBlockEnd(lines, i + 1, TRUE, blockEnd)
             ELSE IF inBlock /\ ~HasPrefix(trimmed, <<"%">>) THEN i
             ELSE IF inBlock THEN FindBlockEnd(lines, i + 1, inBlock, i + 1)
             ELSE FindBlockEnd(lines, i + 1, inBlock, blockEnd)

\* the lines of a string made of the given lines, each followed by a newline
Terminated(lines) == lines \o << <<>> >>

\* the lines of the concatenation of two strings
Concat(a, b) ==
    SubSeq(a, 1, Len(a) - 1) \o <<a[Len(a)] \o b[1]>> \o SubSeq(b, 2, Len(b))

\* Update(content, m), today being the current date, content having the
\* lines strings.Split gives (at least one)
Update(content, m, today) ==
    LET b == extractMetadataBlock(content)
        newMetadata == Format(m, today)
    IN  IF ~b.found
        THEN Concat(Concat(newMetadata, << <<>>, <<>> >>), content)
        ELSE LET blockEnd == FindBlockEnd(content, b.start, FALSE, b.start)
                 from == IF /\ blockEnd < Len(content)
                            /\ TrimSpace(content[blockEnd + 1]) = <<>>
                         THEN blockEnd + 1 ELSE blockEnd
                 rest == SubSeq(content, from + 1, Len(content))
             IN  Concat(Concat(Terminated(SubSeq(content, 1, b.start)), newMetadata),
                        IF rest = <<>> THEN << <<>> >> ELSE rest)

\* the most lines of an updated content
MaxUpdateLines == 4

U_other == <<"%", "%", " ", "k", ":", "v">>
U_tags == <<"%", " ", "t", "a", "g", "s", ":", " ", "z">>

UpdateLines == {Hdr2, P_hdr, P_title2, U_other, U_tags, <<>>, P_text}

UpdateContents == UNION {[1..n -> UpdateLines] : n \in 1..MaxUpdateLines}

UpdateHeaders == {[Title |-> <<"T">>, Date |-> D_leap, Tags |-> g] :
                     g \in {<<>>, << <<"y">>, <<"x">> >>}}

InitUpdate ==
    /\ fs \in {[n \in Names |-> Absent]}
    /\ dirOK = TRUE
    /\ nchanges = 0
    /\ index = EmptyIndex
    /\ events = <<>>
    /\ watching = FALSE
    /\ shutdown = "none"
    /\ main = [RebuildCall(EmptyIndex, FALSE) EXCEPT !.pc = "idle"]
    /\ w = [pc |-> "off", path |-> <<>>, ret |-> "off"]
    /\ consumed = <<>>
    /\ updated = <<>>
    /\ lastRead = [n \in Names |-> [seen |-> FALSE, content |-> <<>>]]
    /\ last = NoOp
    /\ quiet = TRUE
    /\ imu = FreeLock
    /\ smu = FreeLock
    /\ documents = NoDocuments
    /\ tasks = [t \in AllTasks |-> IdleTask]
    /\ published = [u \in Uris |-> NoPublished]
    /\ \E m \in UpdateHeaders, content \in UpdateContents :
           reply = [m |-> m, today |-> D_today, content |-> content,
                    updated |-> FALSE, text |-> <<>>, lenient |-> NoParse]

\* Update(content, m)
DoUpdate ==
    /\ ~reply.updated
    /\ reply' = [reply EXCEPT !.updated = TRUE,
                              !.text = Update(reply.content, reply.m, reply.today)]
    /\ UNCHANGED parseFrame
    /\ UNCHANGED dirVars

\* Extract of the updated content
UpdateReparse ==
    /\ reply.updated
    /\ ~reply.lenient.done
    /\ reply' = [reply EXCEPT !.lenient = Parsed(Parse(reply.text, FALSE))]
    /\ UNCHANGED parseFrame
    /\ UNCHANGED dirVars

NextUpdate ==
    \/ DoUpdate
    \/ UpdateReparse

SpecUpdate == InitUpdate /\ [][NextUpdate]_vars

(***************************************************************************)
(* parseFilenameToSlug and IsManaged applied to file names and URIs.       *)
(***************************************************************************)

\* the server before Run, with nothing on disk
InitIdle ==
    /\ fs \in {[n \in Names |-> Absent]}
    /\ dirOK = TRUE
    /\ nchanges = 0
    /\ index = EmptyIndex
    /\ events = <<>>
    /\ watching = FALSE
    /\ shutdown = "none"
    /\ main = [RebuildCall(EmptyIndex, FALSE) EXCEPT !.pc = "idle"]
    /\ w = [pc |-> "off", path |-> <<>>, ret |-> "off"]
    /\ consumed = <<>>
    /\ updated = <<>>
    /\ lastRead = [n \in Names |-> [seen |-> FALSE, content |-> <<>>]]
    /\ last = NoOp
    /\ quiet = TRUE
    /\ imu = FreeLock
    /\ smu = FreeLock
    /\ documents = NoDocuments
    /\ tasks = [t \in AllTasks |-> IdleTask]
    /\ published = [u \in Uris |-> NoPublished]

FirstSegments == {<<>>,
                  <<"2", "0", "2", "4", "0", "1", "0", "1">>,
                  <<"2", "0", "2", "4", "0", "1", "0">>,
                  <<"2", "0", "2", "4", "0", "1", "0", "1", "1">>,
                  <<"2", "0", "2", "4", "0", "1", "0", "a">>,
                  <<"n", "o">>}
Separators == {<<>>, <<"-">>}
Remainders == {<<>>, <<"a">>, <<"a", "-", "b">>, <<"-", "a">>, <<"a", ".", "t", "e", "x">>}
Extensions == {<<>>, Ext_tex, Ext_tex \o Ext_tex, <<".", "t", "x", "t">>}

SlugFilenames == {p \o h \o r \o e :
                     p \in FirstSegments, h \in Separators, r \in Remainders, e \in Extensions}

UriSchemes == {UriScheme, <<>>, <<"h", "t", "t", "p", ":", "/", "/">>}
UriDirs == {<<"/", "n", "o", "t", "e", "s", "/">>,
            <<"/", "n", "o", "t", "e", "s", "/", "s", "u", "b", "/">>,
            <<"/", "n", "o", "t", "e", "s", "-", "o", "l", "d", "/">>,
            <<"/", "t", "e", "m", "p", "l", "a", "t", "e", "s", "/">>,
            <<"/", "t", "m", "p", "/">>,
            <<>>}
UriFiles == {<<"a", ".", "t", "e", "x">>, <<"a", ".", "t", "x", "t">>,
             <<"t", ".", "s", "t", "y">>, <<"a">>, <<>>}

\* the URIs IsManaged is asked about
ManagedUris == {c \o d \o f : c \in UriSchemes, d \in UriDirs, f \in UriFiles}

InitSlug ==
    /\ InitIdle
    /\ \E filename \in SlugFilenames, uri \in ManagedUris :
           reply = [filename |-> filename, uri |-> uri,
                    sdone |-> FALSE, slug |-> <<>>,
                    mdone |-> FALSE, managed |-> FALSE, failed |-> FALSE]

\* s.parseFilenameToSlug(filename)
DoSlug ==
    /\ ~reply.sdone
    /\ reply' = [reply EXCEPT !.sdone = TRUE, !.slug = parseFilenameToSlug(reply.filename)]
    /\ UNCHANGED parseFrame
    /\ UNCHANGED dirVars

\* s.IsManaged(uri)
DoIsManaged ==
    /\ ~reply.mdone
    /\ reply' = IF uriToPathPanics(reply.uri)
                THEN [reply EXCEPT !.mdone = TRUE, !.failed = TRUE]
                ELSE [reply EXCEPT !.mdone = TRUE, !.managed = IsManaged(reply.uri)]
    /\ UNCHANGED parseFrame
    /\ UNCHANGED dirVars

NextSlug ==
    \/ DoSlug
    \/ DoIsManaged

SpecSlug == InitSlug /\ [][NextSlug]_vars

\* a task that holds Index.mu, or has called Lock on it, keeps running: the
\* scheduler gives it its steps up to the release; nothing is assumed of the
\* steps of a handler outside the Index
FairServe ==
    /\ SpecServe
    /\ WF_vars(IxLockAnnounce)
    /\ WF_vars(IxLockAcquire)
    /\ WF_vars(IxGet)
    /\ WF_vars(IxAllNext)
    /\ WF_vars(IxAllEnd)
    /\ WF_vars(IxRUnlock)

\* the watcher under the scheduler: a runnable goroutine is eventually run
FairSpec == Spec /\ WF_vars(WRecv) /\ WF_vars(WStat) /\ WF_vars(WParse)

(***************************************************************************)
(* Index synchronizer: the claims.                                         *)
(***************************************************************************)

\* name n is a readable regular .tex file of directory state d
IsNote(d, n) == d[n].kind = "file" /\ d[n].readable /\ HasSuffix(n, Ext_tex)

SlugsOfNames == {parseFilenameToSlug(n) : n \in Names}

\* the server is up and the watcher has consumed every pending event
Quiescent ==
    /\ main.pc = "serving"
    /\ shutdown = "none"
    /\ w.pc = "select"
    /\ events = <<>>

\* C1: once the server is up and the watcher has consumed all pending events,
\* the index holds a slug if and only if some readable .tex file of the notes
\* directory maps to that slug.
C1_EventuallyConsistent ==
    Quiescent =>
        \A s \in SlugsOfNames \cup DOMAIN index :
            (s \in DOMAIN index) <=>
                \E n \in Names : IsNote(fs, n) /\ parseFilenameToSlug(n) = s

\* C2: an incremental update for a path that no longer exists removes the slug
\* of the path's basename and nothing else: if the slug was indexed the count
\* drops by exactly one and the slug is absent, every other entry is unchanged;
\* if it was not indexed the index is unchanged.
C2_DeleteRemovesOnlyTheSlug ==
    last.op = "delete" =>
        LET s == parseFilenameToSlug(Base(last.path))
        IN  /\ s \notin DOMAIN index
            /\ \A t \in (DOMAIN index \cup DOMAIN last.pre) \ {s} :
                   /\ t \in DOMAIN index
                   /\ t \in DOMAIN last.pre
                   /\ index[t] = last.pre[t]
            /\ s \in DOMAIN last.pre => IndexCount(index) = IndexCount(last.pre) - 1
            /\ s \notin DOMAIN last.pre => index = last.pre

\* C2 witness: the slug deleted was indexed under a header of another file, and
\* another slug was indexed too.
C2_Witness ==
    /\ last.op = "delete"
    /\ parseFilenameToSlug(Base(last.path)) \in DOMAIN last.pre
    /\ last.pre[parseFilenameToSlug(Base(last.path))].Filename # Base(last.path)
    /\ IndexCount(last.pre) = 2
    /\ IndexCount(index) = 1

\* C3: after an incremental update of an existing readable path, the slug of its
\* basename holds the header of the content that update read (title, or the slug
\* when the content gives no title, date and tags), whatever was stored before;
\* and whenever the index holds a header of some file, it is the header of the
\* content most recently read from that file.
C3_UpdateReflectsLastRead ==
    /\ last.op = "upsert" =>
           LET n == Base(last.path)
               s == parseFilenameToSlug(n)
               m == Extract(last.content).meta
           IN  /\ s \in DOMAIN index
               /\ index[s].Filename = n
               /\ index[s].Slug = s
               /\ index[s].Title = (IF m.Title = <<>> THEN s ELSE m.Title)
               /\ index[s].Date = m.Date
               /\ index[s].Tags = m.Tags
               /\ \A t \in DOMAIN last.pre \ {s} :
                      t \in DOMAIN index /\ index[t] = last.pre[t]
    /\ \A n \in Names :
           LET s == parseFilenameToSlug(n)
           IN  (s \in DOMAIN index /\ index[s].Filename = n) =>
                   /\ lastRead[n].seen
                   /\ index[s] = HeaderOf(n, lastRead[n].content)

\* C3 witness: an update replaced a header parsed from other content of the
\* same file.
C3_Witness ==
    /\ last.op = "upsert"
    /\ parseFilenameToSlug(Base(last.path)) \in DOMAIN last.pre
    /\ last.pre[parseFilenameToSlug(Base(last.path))].Filename = Base(last.path)
    /\ last.pre[parseFilenameToSlug(Base(last.path))]
           # index[parseFilenameToSlug(Base(last.path))]

\* C4: an incremental update whose header could not be produced leaves the
\* whole index as it was; an update changes the index only by a delete (path
\* absent) or an upsert (header produced).
C4_ParseFailureKeepsEntry ==
    /\ last.op = "parsefail" => index = last.pre
    /\ last.op \in {"delete", "upsert", "parsefail"} =>
           \A t \in DOMAIN index \cup DOMAIN last.pre :
               (t \notin DOMAIN index \/ t \notin DOMAIN last.pre
                    \/ index[t] # last.pre[t])
               => /\ last.op \in {"delete", "upsert"}
                  /\ t = parseFilenameToSlug(Base(last.path))

\* C4 witness: the file exists but cannot be read, and its slug keeps the
\* header stored before.
C4_Witness ==
    /\ last.op = "parsefail"
    /\ fs[Base(last.path)].kind = "file"
    /\ ~fs[Base(last.path)].readable
    /\ parseFilenameToSlug(Base(last.path)) \in DOMAIN index
    /\ index[parseFilenameToSlug(Base(last.path))].Filename = Base(last.path)

\* the .tex paths of a sequence of events, in order
FilterTex(evs) == SelectSeq(evs, LAMBDA e : HasSuffix(e, Ext_tex))

\* C5: the completed updates, followed by the one in progress, are exactly the
\* .tex events received, in order (one update per event, none for another
\* path); an event for another path leaves the index unchanged; the loop ends
\* only on cancellation or a closed channel; and every update begun completes,
\* every pending event being received unless the server shuts down.
C5_WatchLoop ==
    /\ [](/\ FilterTex(consumed) =
                 updated \o (IF w.pc \in {"stat", "parse"} THEN <<w.path>> ELSE <<>>)
          /\ last.op = "ignored" =>
                 ~HasSuffix(last.path, Ext_tex) /\ index = last.pre
          /\ w.pc = "done" => shutdown # "none")
    /\ <>[](/\ w.pc \notin {"stat", "parse"}
            /\ events = <<>> \/ shutdown # "none")

\* C5 witness: two events for one path were received and two updates of it
\* completed, the second one an upsert.
C5_Witness ==
    /\ Len(consumed) = 2
    /\ Len(updated) = 2
    /\ updated[1] = updated[2]
    /\ w.pc = "select"
    /\ last.op = "upsert"

(***************************************************************************)
(* Full rebuild: the claims (checked under SpecDriver).                    *)
(***************************************************************************)

\* C6: when RebuildIndex has returned twice in a row and the notes directory
\* did not change since the first of the two calls began, the index after the
\* second call equals the index after the first: the same slugs, and for each
\* the same header, field by field.
C6_RebuildIdempotent ==
    (main.pc = "returned" /\ main.prevValid /\ quiet) =>
        /\ DOMAIN index = DOMAIN main.prevIndex
        /\ \A s \in DOMAIN index :
               /\ index[s].Slug = main.prevIndex[s].Slug
               /\ index[s].Filename = main.prevIndex[s].Filename
               /\ index[s].Title = main.prevIndex[s].Title
               /\ index[s].Date = main.prevIndex[s].Date
               /\ index[s].Tags = main.prevIndex[s].Tags

\* C6 witness: a second rebuild in a row returned over a directory holding two
\* notes of one slug and a note with tags, the index holding two slugs.
C6_Witness ==
    /\ main.pc = "returned"
    /\ main.prevValid
    /\ quiet
    /\ IsNote(fs, N_a1)
    /\ IsNote(fs, N_a2)
    /\ IndexCount(index) = 2
    /\ \E s \in DOMAIN index : index[s].Tags # <<>>

\* entry i of the listing was a readable regular .tex file when the rebuild
\* reached it
GoodEntry(i) ==
    /\ ~main.listing[i].isDir
    /\ HasSuffix(main.listing[i].name, Ext_tex)
    /\ main.seen[main.listing[i].name].kind = "file"
    /\ main.seen[main.listing[i].name].readable

\* C7: a rebuild that returns nil has reached every listed entry and upserted a header for every listed .tex
\* file that could be read (a slug shared by several holds the header of the
\* last of them), skipping the unreadable ones, the directories and the other
\* entries, whose slugs keep what the index held before; a rebuild returns an
\* error only when the directory cannot be listed, and then the index is as it
\* was before the call.
C7_RebuildSkipsFailures ==
    /\ main.pc = "failed" => ~dirOK /\ index = main.pre
    /\ main.pc = "returned" =>
           /\ \A i \in DOMAIN main.listing :
                  main.seen[main.listing[i].name] # NotReached
           /\ \A i \in DOMAIN main.listing :
                  GoodEntry(i) =>
                      LET s == parseFilenameToSlug(main.listing[i].name)
                          j == CHOOSE k \in DOMAIN main.listing :
                                   /\ GoodEntry(k)
                                   /\ parseFilenameToSlug(main.listing[k].name) = s
                                   /\ \A l \in DOMAIN main.listing :
                                          (GoodEntry(l) /\ l > k) =>
                                              parseFilenameToSlug(main.listing[l].name) # s
                      IN  /\ s \in DOMAIN index
                          /\ index[s] = HeaderOf(main.listing[j].name,
                                                 main.seen[main.listing[j].name].content)
           /\ \A s \in DOMAIN index \cup DOMAIN main.pre :
                  (\A i \in DOMAIN main.listing :
                       GoodEntry(i) => parseFilenameToSlug(main.listing[i].name) # s)
                  => /\ s \in DOMAIN index
                     /\ s \in DOMAIN main.pre
                     /\ index[s] = main.pre[s]

\* C7 witness: a rebuild returned nil although an unreadable .tex file was
\* listed before a readable one, and a directory was listed too.
C7_Witness ==
    /\ main.pc = "returned"
    /\ \E i, j \in DOMAIN main.listing :
           /\ i < j
           /\ ~main.listing[i].isDir
           /\ HasSuffix(main.listing[i].name, Ext_tex)
           /\ main.seen[main.listing[i].name].kind = "file"
           /\ ~main.seen[main.listing[i].name].readable
           /\ GoodEntry(j)
           /\ parseFilenameToSlug(main.listing[j].name) \in DOMAIN index
    /\ \E k \in DOMAIN main.listing : main.listing[k].isDir

(***************************************************************************)
(* Queries: the claims (checked under SpecQuery).                          *)
(***************************************************************************)

\* the diagnostics last published for the document of the reply report the
\* occurrence m of its line as a missing note
ReportedMissing(m) ==
    \E k \in DOMAIN published[reply.uri].diags :
        /\ published[reply.uri].diags[k].severity = "error"
        /\ published[reply.uri].diags[k].line = reply.line
        /\ published[reply.uri].diags[k].start = m.s
        /\ published[reply.uri].diags[k].end = m.e

\* C10: when Definition or Hover has answered at a position inside the
\* argument of a \ref or \cite occurrence on a non-comment line of a document,
\* and Diagnostics were published for the same text under the same index, the
\* occurrence is reported as a missing note exactly when the reply holds no
\* result.
C10_QueriesAgree ==
    (/\ reply.method \in {"definition", "hover"}
     /\ reply.read
     /\ published[reply.uri].valid
     /\ published[reply.uri].content = reply.content
     /\ reply.line < Len(reply.content))
    => LET line == reply.content[reply.line + 1]
           occ == FindAll(line, DiagKinds)
       IN  ~HasPrefix(TrimSpace(line), <<"%">>) =>
               \A k \in DOMAIN occ :
                   (occ[k].s <= reply.character /\ reply.character < occ[k].e) =>
                       (ReportedMissing(occ[k]) <=>
                            ~(reply.location.found \/ reply.hover.found))

(***************************************************************************)
(* The Index under concurrent calls: the claims (checked under SpecIndex). *)
(***************************************************************************)

\* task t is inside the table: between taking the lock and releasing it
InTable(t) == tasks[t].pc \in {"body", "release"}

\* C8: a task writing the table (Set, Delete) is never inside it together with
\* another task; a Get returns what the table held for the slug when it was
\* called or what a write since then stored; after a Set or Delete has
\* returned, and until a later write of the slug, the table holds what it
\* wrote; Count and All return the size and the headers (one per slug) of the
\* table as it was at one instant of the call.
C8_IndexLinearizable ==
    /\ \A t, u \in AllTasks :
           (t # u /\ InTable(t) /\ tasks[t].call \in {"Set", "Delete"}) => ~InTable(u)
    /\ \A t \in Tasks :
           tasks[t].pc = "done" =>
               /\ tasks[t].call = "Get" =>
                      [exists |-> tasks[t].res.exists, note |-> tasks[t].res.note]
                          \in tasks[t].cand
               /\ (tasks[t].call = "Set" /\ ~tasks[t].over) =>
                      IndexGet(index, tasks[t].slug) =
                          [exists |-> TRUE, note |-> tasks[t].hdr]
               /\ (tasks[t].call = "Delete" /\ ~tasks[t].over) =>
                      ~IndexHas(index, tasks[t].slug)
               /\ tasks[t].call = "Count" =>
                      tasks[t].res.count = Cardinality(DOMAIN tasks[t].snap)
               /\ tasks[t].call = "All" =>
                      /\ Len(tasks[t].res.all) = Cardinality(DOMAIN tasks[t].snap)
                      /\ {tasks[t].res.all[k] : k \in DOMAIN tasks[t].res.all}
                             = {tasks[t].snap[s] : s \in DOMAIN tasks[t].snap}
                      /\ \A j, k \in DOMAIN tasks[t].res.all :
                             j # k => tasks[t].res.all[j].Slug # tasks[t].res.all[k].Slug

\* C8 witness: a Get has returned the header that a Set of another task stored
\* between the call of the Get and its read, while the table held another
\* header of the slug at the call.
C8_Witness ==
    \E t \in Tasks :
        /\ tasks[t].pc = "done"
        /\ tasks[t].call = "Get"
        /\ tasks[t].res.exists
        /\ Cardinality(tasks[t].cand) = 2
        /\ \A c \in tasks[t].cand : c.exists

(***************************************************************************)
(* The two locks: the claims (checked under FairServe).                    *)
(***************************************************************************)

\* the steps that read a file, stat it, list a directory, send a notification
\* or run the external command
IOSteps == {"g_file", "notify", "exec", "c_readdir", "stat", "parse"}

\* task t holds mu or has called Lock on it
Engaged(mu, t) == t \in mu.r \/ mu.w = t

\* task t is at a lock it cannot take now
Blocked(t) ==
    \/ tasks[t].pc = "rlock" /\ ~CanRLock(imu)
    \/ tasks[t].pc = "lock" /\ ~CanLockAnnounce(imu)
    \/ tasks[t].pc = "lockwait" /\ ~CanLockAcquire(imu, t)
    \/ tasks[t].pc = "g_rlock" /\ ~CanRLock(smu)
    \/ tasks[t].pc = "s_lock" /\ ~CanLockAnnounce(smu)
    \/ tasks[t].pc = "s_lockwait" /\ ~CanLockAcquire(smu, t)

\* the watcher has called s.index.Set or Delete and does not have the lock yet
WatcherWaits == tasks[Watcher].pc \in {"lock", "lockwait"}

SpanAt(line, i, kw, e) ==
    /\ i + Len(kw) + 2 <= e
    /\ e < Len(line)
    /\ line[i + 1] = "\\"
    /\ SubSeq(line, i + 2, i + 1 + Len(kw)) = kw
    /\ line[i + Len(kw) + 2] = "{"
    /\ line[e + 1] = "}"
    /\ i + Len(kw) + 2 < e
    /\ \A j \in (i + Len(kw) + 3)..e : line[j] # "}"

\* the spans <<start, keyword, closing brace>> of line whose argument range
\* contains offset c
SpanHits(line, c) ==
    {h \in (0..Len(line)) \X (1..Len(SlugKinds)) \X (c..Len(line)) :
        /\ SpanAt(line, h[1], SlugKinds[h[2]], h[3])
        /\ h[1] + Len(SlugKinds[h[2]]) + 2 <= c}

\* the normalized argument of the first span of the line whose argument range
\* contains the offset, <<>> when there is none
SpanSlug(content, posLine, posChar) ==
    IF posLine >= Len(content) THEN <<>>
    ELSE LET line == content[posLine + 1]
             hits == SpanHits(line, posChar)
         IN  IF hits = {} THEN <<>>
             ELSE LET h == CHOOSE g \in hits : \A f \in hits : g[1] <= f[1]
                      raw == SubSeq(line, h[1] + Len(SlugKinds[h[2]]) + 3, h[3])
                  IN  TrimPrefix(TrimSuffix(TrimSpace(raw), Ext_tex), RelPrefix)

\* C11: the slug Definition and Hover get from getSlugAtPosition is the
\* normalized argument (trimmed, trailing .tex removed, leading ../notes/
\* removed) of the first \ref, \cite, \input or \include span of the cursor
\* line whose argument range contains the cursor character, and is empty when
\* the line is past the end of the document or no span contains the character.
C11_SlugAtPosition ==
    (reply.method \in {"definition", "hover"} /\ reply.read)
    => reply.slug = SpanSlug(reply.content, reply.line, reply.character)

\* the cursor is on the closing brace of \cite{ b.tex }: the argument is
\* trimmed and loses its .tex
C11_Witness ==
    /\ reply.method = "definition"
    /\ reply.read
    /\ reply.content = <<L_cite>>
    /\ reply.line = 0
    /\ reply.character = Len(L_cite) - 1
    /\ reply.slug = <<"b">>


\* C12: Definition on a managed, readable document answers without error;
\* when the cursor is on a reference to a slug of the index the answer is the
\* one location file://GetNotePath(Filename of the header stored under the
\* slug), from line 0 character 0 to line 0 character 0; otherwise (no
\* reference under the cursor, or slug not indexed) it is no location.
C12_DefinitionLocation ==
    (reply.method = "definition" /\ reply.read)
    => /\ ~reply.err
       /\ ~reply.failed
       /\ LET slug == SpanSlug(reply.content, reply.line, reply.character)
          IN  IF slug # <<>> /\ slug \in DOMAIN index
              THEN reply.location =
                       [found |-> TRUE,
                        uri |-> <<"f", "i", "l", "e", ":", "/", "/">> \o NotesPath
                                \o <<"/">> \o index[slug].Filename,
                        line |-> 0, character |-> 0, endLine |-> 0, endCharacter |-> 0]
              ELSE ~reply.location.found

\* Definition has answered with the file of a note whose filename is not its
\* slug with the extension
C12_Witness ==
    /\ reply.method = "definition"
    /\ reply.read
    /\ reply.slug = <<"a">>
    /\ reply.location.found
    /\ reply.location.uri = UriScheme \o GetNotePath(N_a1)


\* C13: Completion, Definition and Hover never fail and never return an
\* error; for an unmanaged URI, a document neither buffered nor readable, a
\* cursor line past the end of the document or a cursor character past the end
\* of the line they answer with the empty result, and so do Definition and
\* Hover when no reference is under the cursor or its slug is not indexed.
C13_QueriesNeverFail ==
    reply.method \in {"completion", "definition", "hover"}
    => /\ ~reply.failed
       /\ ~reply.err
       /\ (\/ ~reply.read
           \/ reply.line >= Len(reply.content)
           \/ reply.character > Len(reply.content[reply.line + 1]))
          => reply.items = <<>> /\ ~reply.location.found /\ ~reply.hover.found
       /\ (/\ reply.method \in {"definition", "hover"}
           /\ \/ reply.slug = <<>>
              \/ reply.slug \notin DOMAIN index)
          => ~reply.location.found /\ ~reply.hover.found


\* the lengths n of the suffixes of text that are the partial argument of an
\* open span of keyword kw: no closing brace in the last n characters, and
\* backslash, keyword, opening brace right before them
OpenLens(text, kw) ==
    {n \in 0..Len(text) :
        /\ n + Len(kw) + 2 <= Len(text)
        /\ \A j \in (Len(text) - n + 1)..Len(text) : text[j] # "}"
        /\ text[Len(text) - n] = "{"
        /\ SubSeq(text, Len(text) - n - Len(kw), Len(text) - n - 1) = kw
        /\ text[Len(text) - n - Len(kw) - 1] = "\\"}

\* the partial argument of the open span of kw the text ends in: that of the
\* leftmost one
OpenPartial(text, kw) ==
    LET n == CHOOSE m \in OpenLens(text, kw) : \A l \in OpenLens(text, kw) : l <= m
    IN  SubSeq(text, Len(text) - n + 1, Len(text))

\* the text of the cursor line before the cursor of the reply
ReplyPrefix == SubSeq(reply.content[reply.line + 1], 1, reply.character)

\* the reply is that of a Completion whose cursor lies in the document read
CompletionInText ==
    /\ reply.method = "completion"
    /\ reply.read
    /\ reply.line < Len(reply.content)
    /\ reply.character <= Len(reply.content[reply.line + 1])

\* the template names of the directory of the reply, in directory order
TemplateNames ==
    IF reply.tdir.err THEN <<>>
    ELSE LET keep == SelectSeq(reply.tdir.entries,
                         LAMBDA e : ~e.isDir /\ HasSuffix(e.name, Ext_sty))
         IN  [k \in DOMAIN keep |-> SubSeq(keep[k].name, 1, Len(keep[k].name) - Len(Ext_sty))]

\* C14: when the text before the cursor ends in an open \ref{ span with
\* partial argument p, Completion returns exactly one item (label = slug,
\* detail = title) for each indexed note whose slug starts with p and no item
\* for any other note; when the text also ends in an open \usepackage{ span
\* with partial argument q, the template names that start with q follow these
\* items, in directory order.
C14_ReferenceCompletion ==
    (CompletionInText /\ OpenLens(ReplyPrefix, Kw_ref) # {})
    => LET p == OpenPartial(ReplyPrefix, Kw_ref)
           refs == SelectSeq(reply.items, LAMBDA it : it.kind = "reference")
           mods == SelectSeq(reply.items, LAMBDA it : it.kind = "module")
       IN  /\ \A slug \in DOMAIN index :
                  Cardinality({k \in DOMAIN refs :
                                  /\ refs[k].label = slug
                                  /\ refs[k].detail = index[slug].Title})
                  = IF HasPrefix(slug, p) THEN 1 ELSE 0
           /\ \A k \in DOMAIN refs : refs[k].label \in DOMAIN index
           /\ Len(refs) = Cardinality({slug \in DOMAIN index : HasPrefix(slug, p)})
           /\ OpenLens(ReplyPrefix, Kw_usepackage) # {}
              => LET q == OpenPartial(ReplyPrefix, Kw_usepackage)
                     names == SelectSeq(TemplateNames, LAMBDA n : HasPrefix(n, q))
                 IN  /\ Len(mods) = Len(names)
                     /\ \A k \in DOMAIN mods : mods[k].label = names[k]
                     /\ Len(refs) + Len(mods) > 0
                        => reply.items = refs \o mods

\* Completion has answered at the end of \usepackage{\ref{ with both notes
\* of the index
C14_Witness ==
    /\ CompletionInText
    /\ reply.content = <<L_both>>
    /\ reply.character = Len(L_both)
    /\ ~reply.tdir.err
    /\ Len(reply.items) = 2
    /\ \A k \in DOMAIN reply.items : reply.items[k].kind = "reference"


\* C15: Completion on a managed document answers with the fixed snippet set
\* if and only if the text before the cursor ends neither in an open \ref{
\* span nor in an open \usepackage{ span; when one of the two contexts applies
\* the answer holds no snippet.
C15_SnippetsOnlyOutsideContexts ==
    CompletionInText
    => LET inContext == \/ OpenLens(ReplyPrefix, Kw_ref) # {}
                        \/ OpenLens(ReplyPrefix, Kw_usepackage) # {}
       IN  /\ reply.items = getSnippetCompletions <=> ~inContext
           /\ inContext => \A k \in DOMAIN reply.items : reply.items[k].kind # "snippet"


(***************************************************************************)
(* Diagnostics: the claims (checked under SpecQuery).                      *)
(***************************************************************************)

\* the \ref and \cite occurrences <<start, keyword, closing brace>> of a line:
\* the spans that do not start inside a span that starts before them
RefOccurrences(line) ==
    LET spans == {h \in (0..Len(line)) \X (1..Len(DiagKinds)) \X (0..Len(line)) :
                     SpanAt(line, h[1], DiagKinds[h[2]], h[3])}
    IN  {h \in spans : \A g \in spans : ~(g[1] < h[1] /\ h[1] <= g[3])}

\* the slug analyzeDiagnostics looks up for an occurrence: its argument
\* trimmed, a trailing .tex removed
OccurrenceSlug(line, h) ==
    TrimSuffix(TrimSpace(SubSeq(line, h[1] + Len(DiagKinds[h[2]]) + 3, h[3])), Ext_tex)

IsComment(line) == HasPrefix(TrimSpace(line), <<"%">>)

\* the occurrences <<line number, occurrence>> of a text, outside comment
\* lines, whose slug is not a key of the index
MissingOccurrences(content) ==
    {o \in (0..(Len(content) - 1)) \X
           UNION {RefOccurrences(content[l]) : l \in DOMAIN content} :
        /\ ~IsComment(content[o[1] + 1])
        /\ o[2] \in RefOccurrences(content[o[1] + 1])
        /\ OccurrenceSlug(content[o[1] + 1], o[2]) \notin DOMAIN index}

TodoMarkers(line) ==
    LET spans == {h \in (0..Len(line)) \X (0..Len(line)) :
                     SpanAt(line, h[1], Kw_todo, h[2])}
    IN  {h \in spans : \A g \in spans : ~(g[1] < h[1] /\ h[1] <= g[2])}

\* C17: no published diagnostic lies on a line whose trimmed content starts
\* with %, and the warnings are exactly one per \todo marker of the other
\* lines, from the backslash to after the closing brace, with the marker's
\* argument as text.
C17_CommentsAndTodos ==
    \A u \in DOMAIN published :
        published[u].valid
        => LET content == published[u].content
               diags == published[u].diags
               warns == SelectSeq(diags, LAMBDA d : d.severity = "warning")
               markers == {o \in (0..(Len(content) - 1)) \X
                                 UNION {TodoMarkers(content[l]) : l \in DOMAIN content} :
                              /\ ~IsComment(content[o[1] + 1])
                              /\ o[2] \in TodoMarkers(content[o[1] + 1])}
           IN  /\ \A k \in DOMAIN diags :
                      /\ diags[k].line < Len(content)
                      /\ ~IsComment(content[diags[k].line + 1])
               /\ \A o \in markers :
                      Cardinality({k \in DOMAIN warns :
                          /\ warns[k].line = o[1]
                          /\ warns[k].start = o[2][1]
                          /\ warns[k].end = o[2][2] + 1
                          /\ warns[k].message = "TODO: %s"
                          /\ warns[k].arg = SubSeq(content[o[1] + 1],
                                                   o[2][1] + Len(Kw_todo) + 3, o[2][2])}) = 1
               /\ Len(warns) = Cardinality(markers)

\* diagnostics were published for a text whose first line is an indented
\* comment holding a \todo and a broken \ref, and whose second line holds a
\* broken \ref and a \todo: an error and a warning, both on the second line
C17_Witness ==
    /\ published[U_a].valid
    /\ published[U_a].content = T_ctodo
    /\ <<"c">> \notin DOMAIN index
    /\ Len(published[U_a].diags) = 2
    /\ published[U_a].diags[1].line = 1
    /\ published[U_a].diags[2].line = 1
    /\ published[U_a].diags[2].severity = "warning"
    /\ published[U_a].diags[2].start = Len(L_ref)
    /\ published[U_a].diags[2].end = Len(L_miss)


(***************************************************************************)
(* Document buffers: the claims (checked under SpecQuery).                 *)
(***************************************************************************)

\* C18: after a didOpen of a managed URI, and after a didChange of a managed
\* URI with a content change, the buffer of the URI holds the notification's
\* text; after a didClose the URI has no buffer; Completion, Definition and
\* Hover work on the buffer text while the URI has one.
C18_DocumentBuffers ==
    ~reply.failed
    => /\ (/\ reply.method \in {"didOpen", "didChange"}
           /\ IsManaged(reply.uri)
           /\ reply.content # <<>>)
          => /\ reply.uri \in DOMAIN documents
             /\ documents[reply.uri] = reply.content
       /\ reply.method = "didClose" => reply.uri \notin DOMAIN documents
       /\ (/\ reply.method \in {"completion", "definition", "hover"}
           /\ reply.uri \in DOMAIN documents)
          => reply.read /\ reply.content = documents[reply.uri]
       /\ \A u \in DOMAIN documents : IsManaged(u)


\* what a DidOpen or DidChange handler must have published when it returns:
\* once for a managed document (a DidChange with no content change carries no
\* text), never otherwise
PublishesDue(task) ==
    IF IsManaged(task.uri) /\ (task.op = "DidOpen" \/ task.text # <<>>) THEN 1 ELSE 0

\* a step of the server as C19 allows it
C19_Step ==
    /\ \A t \in Tasks :
           \* the analysis of the notification's text is over: the handler
           \* publishes what it computed from the text and the index it read
           /\ (tasks[t].pc = "diag" /\ tasks[t].todo = <<>> /\ tasks'[t] # tasks[t])
              => /\ tasks'[t].pc = "done"
                 /\ tasks'[t].pubs = 1
                 /\ published' = [published EXCEPT ![tasks[t].uri] =
                                     [valid |-> TRUE, content |-> tasks[t].text,
                                      diags |-> DiagnosticsSeen(tasks[t].text,
                                                                tasks[t].looked)]]
           \* the handler returns having published exactly as often as due
           /\ (tasks[t].op # "idle" /\ tasks'[t].op = "idle")
              => tasks[t].pubs = PublishesDue(tasks[t])
    \* nothing else publishes
    /\ published' # published
       => \E t \in Tasks : /\ tasks[t].pc = "diag"
                           /\ tasks[t].op \in {"DidOpen", "DidChange"}
                           /\ tasks'[t].pubs = tasks[t].pubs + 1
    \* an index change publishes nothing and leaves the buffers alone
    /\ index' # index => published' = published /\ documents' = documents

\* C19: each didOpen, and each didChange with a content change, of a managed
\* document publishes diagnostics exactly once, computed from the text of the
\* notification and the index contents read during the computation; nothing
\* else publishes, and an index change neither alters published diagnostics
\* nor a document buffer.
C19_PublishedOncePerNotification == [][C19_Step]_vars

\* published diagnostics of a document differ from what the index now gives,
\* with no handler at work
StalePublished ==
    /\ \A t \in Tasks : tasks[t].op = "idle"
    /\ \E u \in DOMAIN published :
           /\ published[u].valid
           /\ published[u].diags # analyzeDiagnostics(index, published[u].content)


\* C20: lenient Parse never returns an error; strict Parse returns an error
\* exactly when the lenient Parse of the same content records a ParseError;
\* when strict Parse succeeds, its Metadata and warnings are those of the
\* lenient Parse; content with no metadata block fails in strict mode and
\* gives, in lenient mode, an empty title and the one error "no metadata
\* block found".
C20_StrictVersusLenient ==
    (reply.strict.done /\ reply.lenient.done)
    => /\ ~reply.lenient.err
       /\ reply.strict.err <=> reply.lenient.result.Errors # <<>>
       /\ ~reply.strict.err
          => /\ reply.strict.result.Metadata = reply.lenient.result.Metadata
             /\ reply.strict.result.Warnings = reply.lenient.result.Warnings
       /\ ~extractMetadataBlock(reply.content).found
          => /\ reply.strict.err
             /\ reply.lenient.result.Metadata.Title = <<>>
             /\ reply.lenient.result.Errors =
                    <<ParseError(0, "metadata", "no metadata block found", <<>>)>>

\* both modes have parsed a block with a title and an invalid date: strict
\* failed, lenient kept the title, the date and the error
C20_Witness ==
    /\ reply.strict.done
    /\ reply.lenient.done
    /\ reply.strict.err
    /\ reply.lenient.result.Metadata.Title # <<>>
    /\ reply.lenient.result.Metadata.Date # <<>>
    /\ Len(reply.lenient.result.Errors) = 1
    /\ reply.lenient.result.Warnings # <<>>


\* the numbers (1-based, as Parse counts them) of the lines of the content's
\* metadata block that Parse hands to parseMetadataLine
BlockLineNums(content) ==
    LET b == extractMetadataBlock(content)
    IN  IF ~b.found THEN {}
        ELSE {n \in (b.start + 1)..(b.start + Len(b.lines)) :
                 LET trimmed == TrimSpace(content[n])
                 IN  ~(trimmed = <<>> \/ HasPrefix(trimmed, Hdr2) \/ HasPrefix(trimmed, Hdr1))}

\* the numbers of the block's lines of the form "kw: value"
FieldLineNums(content, kw) ==
    {n \in BlockLineNums(content) :
        LET mt == MatchField(StripPercent(TrimSpace(content[n])))
        IN  mt.ok /\ ToLower(TrimSpace(mt.field)) = kw}

\* the trimmed value of a field line
FieldValue(line) == TrimSpace(MatchField(StripPercent(TrimSpace(line))).value)

Least(S) == CHOOSE n \in S : \A k \in S : n <= k

\* the line numbers a sequence of warnings cites, in order
CitedLines(warnings) == [k \in DOMAIN warnings |-> warnings[k].Line]

Ascending(nums) == \A i, j \in DOMAIN nums : i < j => nums[i] <= nums[j]

\* C21: after a lenient parse the title is the value of the first title line
\* of the block; every later title line leaves it unchanged and adds one
\* 'duplicate title' warning citing that later line; a title line with an
\* empty value records an error, which aborts the parse only in strict mode;
\* warnings are in source line order.
C21_TitlePrecedence ==
    (reply.strict.done /\ reply.lenient.done)
    => LET titles == FieldLineNums(reply.content, Kw_title)
           res == reply.lenient.result
           dups == SelectSeq(res.Warnings, LAMBDA x :
                       x.Message = "duplicate title field, using first occurrence")
       IN  /\ Ascending(CitedLines(res.Warnings))
           /\ titles # {}
              => /\ res.Metadata.Title = FieldValue(reply.content[Least(titles)])
                 /\ {dups[k].Line : k \in DOMAIN dups} = titles \ {Least(titles)}
                 /\ Len(dups) = Cardinality(titles) - 1
                 /\ FieldValue(reply.content[Least(titles)]) = <<>>
                    => /\ \E k \in DOMAIN res.Errors :
                              /\ res.Errors[k].Line = Least(titles)
                              /\ res.Errors[k].Field = "title"
                       /\ reply.strict.err
                       /\ ~reply.lenient.err


MonthDays == <<31, 28, 31, 30, 31, 30, 31, 31, 30, 31, 30, 31>>

\* a date of the calendar written YYYY-MM-DD
CalendarCorrect(date) ==
    \E y \in 2023..2024, m \in 1..12 :
        \E d \in 1..(MonthDays[m] + (IF m = 2 /\ y = 2024 THEN 1 ELSE 0)) :
            date = <<DigitSeq[(y \div 1000) + 1], DigitSeq[((y \div 100) % 10) + 1],
                     DigitSeq[((y \div 10) % 10) + 1], DigitSeq[(y % 10) + 1], "-",
                     DigitSeq[(m \div 10) + 1], DigitSeq[(m % 10) + 1], "-",
                     DigitSeq[(d \div 10) + 1], DigitSeq[(d % 10) + 1]>>

D_month13 == <<"2", "0", "2", "4", "-", "1", "3", "-", "0", "1">>

\* C22: a date value that is not a calendar-correct YYYY-MM-DD records a
\* ParseError, returned as an error only in strict mode, and is stored in
\* Metadata.Date all the same: after a lenient parse of a block with a
\* non-empty date line, Metadata.Date is the trimmed value of the first such
\* line; an empty date is accepted without error.
C22_InvalidDateStored ==
    /\ ~validateDate(D_month13)
    /\ (reply.strict.done /\ reply.lenient.done)
       => LET dates == {n \in FieldLineNums(reply.content, Kw_date) :
                           FieldValue(reply.content[n]) # <<>>}
              res == reply.lenient.result
              dateErrors == {k \in DOMAIN res.Errors : res.Errors[k].Field = "date"}
          IN  /\ ~reply.lenient.err
              /\ dates = {} => res.Metadata.Date = <<>> /\ dateErrors = {}
              /\ dates # {}
                 => LET first == Least(dates)
                        value == FieldValue(reply.content[first])
                    IN  /\ res.Metadata.Date = value
                        /\ res.Metadata.Date # <<>>
                        /\ CalendarCorrect(value) => dateErrors = {}
                        /\ ~CalendarCorrect(value)
                           => /\ {res.Errors[k].Line : k \in dateErrors} = {first}
                              /\ reply.strict.err

\* a lenient parse has stored the date 2023-02-29 and recorded its error,
\* and the strict parse of the content has failed
C22_Witness ==
    /\ reply.strict.done
    /\ reply.lenient.done
    /\ reply.strict.err
    /\ reply.lenient.result.Metadata.Date = FieldValue(P_baddate)
    /\ \E k \in DOMAIN reply.lenient.result.Errors :
           reply.lenient.result.Errors[k].Field = "date"


\* the trimmed, non-empty, comma-separated values of the tags lines numbered
\* from n on, in source order
RECURSIVE TagValuesFrom(_, _)
TagValuesFrom(content, n) ==
    IF n > Len(content) THEN <<>>
    ELSE (IF n \in FieldLineNums(content, Kw_tags)
          THEN TrimmedNonEmpty(Split(FieldValue(content[n]), ","))
          ELSE <<>>)
         \o TagValuesFrom(content, n + 1)

\* tags without the ones met before in another or the same spelling
FirstSeen(tags) ==
    LET keep == {i \in DOMAIN tags :
                    \A j \in 1..(i - 1) : ToLower(tags[j]) # ToLower(tags[i])}
        Pick[i \in 0..Len(tags)] ==
            IF i = 0 THEN <<>>
            ELSE IF i \in keep THEN Append(Pick[i - 1], tags[i]) ELSE Pick[i - 1]
    IN  Pick[Len(tags)]

L_fivetags == <<"%", " ", "t", "a", "g", "s", ":", " ",
                "m", "a", "t", "h", ",", " ", "p", "h", "y", "s", "i", "c", "s", ",", " ",
                "m", "a", "t", "h", ",", " ", "c", "a", "l", "c", "u", "l", "u", "s", ",", " ",
                "P", "h", "y", "s", "i", "c", "s">>

\* C23: the parsed tags are the comma-separated, trimmed, non-empty values
\* of all tags lines of the block merged in source order, deduplicated
\* without regard to case keeping the first spelling and the order; every
\* repeated tags line produces a warning.
C23_TagsMerged ==
    /\ Parse(<<P_hdr, P_title, L_fivetags>>, FALSE).result.Metadata.Tags
           = << <<"m", "a", "t", "h">>, <<"p", "h", "y", "s", "i", "c", "s">>,
                <<"c", "a", "l", "c", "u", "l", "u", "s">> >>
    /\ reply.lenient.done
       => LET tagLines == FieldLineNums(reply.content, Kw_tags)
              res == reply.lenient.result
              dups == SelectSeq(res.Warnings, LAMBDA x :
                          x.Message = "duplicate tags field, merging values")
          IN  /\ res.Metadata.Tags = FirstSeen(TagValuesFrom(reply.content, 1))
              /\ tagLines # {}
                 => {dups[k].Line : k \in DOMAIN dups} = tagLines \ {Least(tagLines)}


\* a header a parse can give without an error, apart from its date: a
\* trimmed non-empty title, no date or a date of the calendar, tags that are
\* trimmed, non-empty and without a comma
WellFormedHeader(m) ==
    /\ m.Title # <<>>
    /\ TrimSpace(m.Title) = m.Title
    /\ m.Date = <<>> \/ CalendarCorrect(m.Date)
    /\ \A k \in DOMAIN m.Tags :
           /\ m.Tags[k] # <<>>
           /\ TrimSpace(m.Tags[k]) = m.Tags[k]
           /\ \A i \in DOMAIN m.Tags[k] : m.Tags[k][i] # ","

\* C24: for every valid header H (a title, a date, a list of tags), parsing
\* Format(H) records no error and yields the title of H, the date of H and
\* the tags of H up to de-duplication and ordering.  (For a header without a
\* date, Format writes the current date, and that is the date parsed.)
C24_RoundTrip ==
    (reply.strict.done /\ reply.lenient.done /\ WellFormedHeader(reply.m))
    => /\ ~reply.strict.err
       /\ ~reply.lenient.err
       /\ reply.lenient.result.Errors = <<>>
       /\ reply.strict.result.Errors = <<>>
       /\ reply.strict.result.Metadata = reply.lenient.result.Metadata
       /\ reply.lenient.result.Metadata.Title = reply.m.Title
       /\ reply.lenient.result.Metadata.Tags = FirstSeen(reply.m.Tags)
       /\ reply.m.Date # <<>> => reply.lenient.result.Metadata.Date = reply.m.Date
       /\ reply.m.Date = <<>> => reply.lenient.result.Metadata.Date = reply.today

\* a header with a title, a date and two tags of different spelling has
\* been formatted and parsed back
C24_Witness ==
    /\ reply.strict.done
    /\ reply.lenient.done
    /\ reply.m.Date = D_leap
    /\ reply.m.Tags = << <<"y">>, <<"x">> >>
    /\ reply.lenient.result.Metadata = reply.m


\* what C25 has Update return: the content with its metadata block, where
\* the parser finds it, replaced by Format(m) and one blank line after the
\* block dropped, or Format(m) and the content when there is no block
UpdateExpected(content, m, today) ==
    LET b == extractMetadataBlock(content)
        after == SubSeq(content, b.start + Len(b.lines) + 1, Len(content))
        kept == IF after # <<>> /\ TrimSpace(Head(after)) = <<>> THEN Tail(after) ELSE after
    IN  IF ~b.found
        THEN SubSeq(Format(m, today), 1, 4) \o << <<>> >> \o content
        ELSE SubSeq(content, 1, b.start) \o SubSeq(Format(m, today), 1, 4)
             \o (IF kept = <<>> THEN << <<>> >> ELSE kept)

\* C25: Update(content, m) replaces the metadata block of the content by
\* Format(m), or prepends Format(m) when there is none; the result has none
\* of the old block's lines and parses to m; exactly one blank line after a
\* replaced block is dropped and every other line is kept as it is and in
\* order; this for every header line the parser accepts and wherever the
\* parser finds the block.
C25_UpdateReplacesBlock ==
    reply.lenient.done
    => /\ reply.text = UpdateExpected(reply.content, reply.m, reply.today)
       /\ reply.lenient.result.Metadata = reply.m
       /\ reply.lenient.result.Errors = <<>>


\* the slug C26 gives a file name: the name without a trailing .tex, and
\* without its first nine characters when these are eight digits and a hyphen
SlugOfName(filename) ==
    LET name == IF HasSuffix(filename, Ext_tex)
                THEN SubSeq(filename, 1, Len(filename) - 4) ELSE filename
    IN  IF /\ Len(name) >= 9
           /\ name[9] = "-"
           /\ \A i \in 1..8 : name[i] \in Digits
        THEN SubSeq(name, 10, Len(name))
        ELSE name

FN_graph == <<"2", "0", "2", "4", "0", "1", "0", "1", "-", "g", "r", "a", "p", "h", "-",
              "t", "h", "e", "o", "r", "y", ".", "t", "e", "x">>
FN_multi == <<"2", "0", "2", "4", "0", "1", "0", "3", "-", "m", "u", "l", "t", "i", "-",
              "w", "o", "r", "d", "-", "s", "l", "u", "g", "-", "n", "a", "m", "e",
              ".", "t", "e", "x">>
FN_simple == <<"s", "i", "m", "p", "l", "e", ".", "t", "e", "x">>
FN_nodate == <<"n", "o", "-", "d", "a", "t", "e", "-", "p", "r", "e", "f", "i", "x",
               ".", "t", "e", "x">>

\* C26: filenameToSlug strips a trailing .tex; if the rest has a hyphen and
\* its segment before the first hyphen is exactly 8 digits, the result is
\* what follows that hyphen; otherwise the rest unchanged.
C26_FilenameToSlug ==
    /\ parseFilenameToSlug(FN_graph) = SubSeq(FN_graph, 10, 21)
    /\ parseFilenameToSlug(FN_multi) = SubSeq(FN_multi, 10, 29)
    /\ parseFilenameToSlug(FN_simple) = SubSeq(FN_simple, 1, 6)
    /\ parseFilenameToSlug(FN_nodate) = SubSeq(FN_nodate, 1, 14)
    /\ reply.sdone => reply.slug = SlugOfName(reply.filename)

\* the slug of a name with a date prefix, two hyphens and .tex is computed
C26_Witness ==
    /\ reply.sdone
    /\ reply.filename = <<"2", "0", "2", "4", "0", "1", "0", "1", "-", "a", "-", "b",
                          ".", "t", "e", "x">>
    /\ reply.slug = <<"a", "-", "b">>


\* the URI names a .tex file inside the notes directory
InNotesDirectory(uri) ==
    /\ HasPrefix(uri, UriScheme)
    /\ HasPrefix(SubSeq(uri, Len(UriScheme) + 1, Len(uri)), NotesPath \o <<"/">>)
    /\ HasSuffix(uri, Ext_tex)

\* C27: IsManaged(uri) returns true exactly when the URI denotes a .tex file
\* inside the notes directory, and returns false, without failing, for every
\* other URI of any length and form.
C27_IsManagedGatekeeper ==
    reply.mdone => /\ ~reply.failed
                   /\ reply.managed <=> InNotesDirectory(reply.uri)


\* every entry is stored under its slug, the slug of its file name, with a
\* title and with tags that are no nil slice
WellFormedEntries ==
    \A s \in DOMAIN index :
        /\ index[s].Slug = s
        /\ index[s].Filename \in Names
        /\ SlugT(index[s].Filename) = s
        /\ s # <<>> => index[s].Title # <<>>
        /\ lastRead[index[s].Filename].seen
        /\ ~HeaderTagsNil(index[s].Filename, lastRead[index[s].Filename].content)

\* an entry that changes is replaced by a header built from a file just read
ReplacedWholesale ==
    \A s \in DOMAIN index \cap DOMAIN index' :
        index'[s] # index[s]
        => \E n \in Names : /\ lastRead'[n].seen
                            /\ index'[s] = Header(n, lastRead'[n].content)

\* C28: in every state reached through RebuildIndex and updateIndexForFile
\* each entry has key = header.Slug = filenameToSlug(header.Filename), tags
\* that are not nil and, for a non-empty slug, a non-empty title; a stored
\* header is never modified, only replaced by a newly built one or deleted.
C28_EntriesWellFormed == []WellFormedEntries /\ [][ReplacedWholesale]_vars

\* the index holds the header of a note whose content has a metadata block
\* without a title and without tags: the slug is its title
C28_Witness ==
    \E s \in DOMAIN index :
        /\ lastRead[index[s].Filename].content = K_hdr
        /\ index[s].Title = s
        /\ index[s].Filename = N_a1
        /\ ExtractTagsNil(K_hdr)


\* the slugs of the notes on disk
SlugsOnDisk == {SlugT(n) : n \in {k \in Names : IsNote(fs, k)}}

\* C29: RebuildIndex only inserts or replaces entries: every slug indexed
\* before the call is indexed after it, also when no note file maps to it
\* any more; so the index after RebuildIndex is the set of notes on disk only
\* if every entry present before the call is still backed by a file.
C29_RebuildNeverRemoves ==
    main.pc = "returned"
    => /\ DOMAIN main.pre \subseteq DOMAIN index
       /\ DOMAIN index = SlugsOnDisk => DOMAIN main.pre \subseteq SlugsOnDisk

\* a rebuild has returned and the index still holds a slug, indexed before
\* the call, that no note file on disk maps to
C29_Witness ==
    /\ main.pc = "returned"
    /\ \E s \in DOMAIN main.pre : s \in DOMAIN index /\ s \notin SlugsOnDisk
    /\ \E s \in DOMAIN index : s \in SlugsOnDisk


\* Run has not yet returned from its initial RebuildIndex
StartupBuilding == main.pc \in {"setconn", "readdir", "parse"}

\* C30: the initial full rebuild has completed before the watcher task
\* consumes a change event and before a handler reads the index: while
\* the rebuild of Run is under way the watcher task is not started and no
\* diagnostics computation has looked a slug up in the index.
C30_StartupOrdering ==
    StartupBuilding
    => /\ w.pc = "off"
       /\ consumed = <<>>
       /\ \A t \in Tasks : tasks[t].looked = <<>>


====
